---- MODULE Spec2Model ----
(***************************************************************************)
(* Verification model of the clinical-document extraction pipeline:        *)
(*   - Hierarchy Builder      (json_struct_protocol.parse_hierarchy)       *)
(*   - Form Extractor         (form_extractor.extract_forms)               *)
(*   - Schedule (SoA) Parser  (soa_parser.parse_soa)                       *)
(*   - Matrix Reconciler      (common_matrix.generate_ordered_soa_matrix)  *)
(*   - Item Extractor rules   (Final_study_specific_form, global CONFIG)   *)
(* Each stage is its own state machine with its own specification; the     *)
(* variables of the other stages stay at their idle values.                *)
(***************************************************************************)
EXTENDS Integers, Sequences, FiniteSets, TLC

VARIABLES
    \* ---- Hierarchy Builder (parse_hierarchy) ----
    elements,        \* the input elements consumed so far, in order
    nodes,           \* every node dict created so far; nodes[1] is root
    children,        \* children[n]: the "children" list of node n (node ids)
    header_context,  \* heading level -> node id (a dict: a function on its keys)
    path_to_node     \* normalized path -> node id (a dict)

hvars == <<elements, nodes, children, header_context, path_to_node>>

VARIABLES
    \* ---- Matrix Reconciler (generate_ordered_soa_matrix) ----
    m_pc,            \* "idle" | "loaded" | "done"
    extracted,       \* rows of the forms table, in extraction order
    proc_order,      \* the schedule's Procedure column
    threshold,       \* config fuzzy_threshold, in tenths
    include_unmapped,\* config include_unmapped
    form_order_map,  \* form label -> [index, procedure]
    unmapped_forms,  \* labels logged as unmapped
    ex_sorted,       \* the forms table after sort_values('SortIndex')
    matrix_df        \* the output matrix: one record of cells per row

mvars == <<m_pc, extracted, proc_order, threshold, include_unmapped,
           form_order_map, unmapped_forms, ex_sorted, matrix_df>>

VARIABLES
    \* ---- Schedule (SoA) Parser (parse_soa) ----
    s_pc,            \* "idle" | "loaded" | "done"
    soa_config,      \* the stage's config dict (a function on the keys present)
    row_cells,       \* TR node id -> flattened cell texts
    tree0_children,  \* children list of every Table node as the tree was loaded
    table_children,  \* children list of every Table node now
    soa_result,      \* what parse_protocol_schedule returned
    soa_outcome,     \* "none" | "returned" | "raised"
    schedule_csv     \* the schedule CSV written to output_csv, NoFile if none

svars == <<s_pc, soa_config, row_cells, tree0_children, table_children,
           soa_result, soa_outcome, schedule_csv>>

VARIABLES
    \* ---- Form Extractor (extract_forms) ----
    f_pc,            \* "idle" | "loaded" | "done"
    ecrf_doc,        \* the eCRF tree below its root, in pre-order: [depth, name, text]
    form_config,     \* the stage's config dict
    extracted_forms, \* the list returned by extract_forms_with_corrections
    form_trigger_lists, \* per returned form: its form_triggers texts, in search order
    forms_outcome,   \* "none" | "returned" | "raised"
    forms_csv        \* the rows written to output_csv, NoFormsFile if none

fvars == <<f_pc, ecrf_doc, form_config, extracted_forms, form_trigger_lists, forms_outcome, forms_csv>>

VARIABLES
    \* ---- Item extraction runs (Final_study_specific_form.py) ----
    CONFIG,          \* the module global CONFIG
    run_pc,          \* per run: "start" | "running" | "done"
    run_config_path, \* per run: the config_path argument of its entry point
    run_calls,       \* per run: number of rule calls made so far
    last_decision    \* per run: the latest rule call with its arguments and result

cvars == <<CONFIG, run_pc, run_config_path, run_calls, last_decision>>

VARIABLES
    \* ---- Source classification (determine_form_source) ----
    d_pc,            \* "idle" | "called" | "returned"
    src_args,        \* the arguments of the call
    src_result       \* the returned source, "" before the return

dvars == <<d_pc, src_args, src_result>>

VARIABLES
    \* ---- Item Extractor (extract_items_from_form, item-group analysis) ----
    i_pc,            \* "idle" | "loaded" | "done"
    form_tables,     \* the Table nodes found in the form node: each the list of TR rows found below it, each a list of cell nodes
    item_config,     \* the value of the global CONFIG during the run
    unique_items,    \* the list returned by extract_items_from_form
    item_rows        \* the rows built from the items of the form

ivars == <<i_pc, form_tables, item_config, unique_items, item_rows>>

VARIABLES
    \* ---- Event grouping (generate_visits_with_groups) ----
    e_pc,            \* "idle" | "loaded" | "done"
    soa_tables,      \* the SoA tables: each a list of rows [first_text, cells]
    event_config,    \* the stage's config dict
    normalized,      \* normalize_visit_name of every visit token met, in order: [token, norm]
    soa_df,          \* the rows returned by extract_visits_and_weeks
    visits_df        \* soa_df after drop_duplicates(subset=['Visit Name'])

evars == <<e_pc, soa_tables, event_config, normalized, soa_df, visits_df>>

VARIABLES
    \* ---- Repeated calls of parse_hierarchy on one list ----
    h_elements,      \* the element list object passed to every call
    h_given,         \* the content of that list when the first call was made
    h_returned       \* the builder state behind each returned root, one per call

rvars == <<h_elements, h_given, h_returned>>

VARIABLES
    \* ---- Data type of one item (determine_data_type) ----
    dt_pc,           \* "idle" | "called" | "returned"
    dt_option_node,  \* the item's Option_TD_Node
    dt_config,       \* the value of the global CONFIG during the call
    dt_content,      \* codelist_content: get_all_lbody_values of the option node
    dt_result        \* the returned data type, "" before the return

tvars == <<dt_pc, dt_option_node, dt_config, dt_content, dt_result>>

VARIABLES
    \* ---- Configuration loading of a PTD run (generate_ptd.main) ----
    g_pc,            \* "idle" | "loading" | "rules" | "done" | "raised"
    config_on_disk,  \* configuration file -> what is at its path
    configs,         \* run_schedule_grid_pipeline's configs dict, key -> config
    rules_config,    \* the CONFIG assigned by prepare_study_specific_forms_rows
    warnings         \* the files a logging.warning was written about, in order

gvars == <<g_pc, config_on_disk, configs, rules_config, warnings>>

VARIABLES
    \* ---- Event groups of the visits (generate_visits_with_groups) ----
    x_pc,            \* "idle" | "loaded" | "done" | "raised"
    protocol_doc,    \* the protocol JSON: nodes [text, children]
    group_config,    \* the config dict of the call
    extracted_df,    \* soa_df as extract_visits_and_weeks returns it
    extension_start_week,  \* the value extract_extension_week returned
    grouped_df       \* soa_df with its Event Group column

xvars == <<x_pc, protocol_doc, group_config, extracted_df, extension_start_week, grouped_df>>

VARIABLES
    \* ---- Job-based backend (src/backend/app.py) ----
    JOBS,            \* the in-memory job registry: job id -> [state, error, output]
    responses,       \* job id -> the response its /run_pipeline request returned
    workbooks,       \* the job ids whose out_path holds a saved workbook
    download_response  \* the response of the last /download request

bvars == <<JOBS, responses, workbooks, download_response>>

vars == <<hvars, mvars, svars, fvars, cvars, dvars, ivars, evars, rvars, tvars, gvars, xvars, bvars>>

(***************************************************************************)
(* Every stage is a separate run of the program: a specification starts    *)
(* its own stage and leaves the other stages' variables as constructed.    *)
(***************************************************************************)
RootId == 1

RootNode == [name |-> "Document Root", text |-> "", path |-> <<"(root)">>]

DocumentPath == <<"Document">>

HIdle ==
    /\ elements = <<>>
    /\ nodes = <<RootNode>>
    /\ children = << <<>> >>
    /\ header_context = (0 :> RootId)
    /\ path_to_node = (<<>> :> RootId) @@ (DocumentPath :> RootId)

MIdle ==
    /\ m_pc = "idle"
    /\ extracted = <<>>
    /\ proc_order = <<>>
    /\ threshold = 0
    /\ include_unmapped = FALSE
    /\ form_order_map = <<>>
    /\ unmapped_forms = {}
    /\ ex_sorted = <<>>
    /\ matrix_df = <<>>

NoFile == [procedures |-> <<>>, visits |-> <<>>, marks |-> {<<"(no file)", "">>}]

NoneResult == [none |-> TRUE, schedule |-> <<>>, visit_order |-> <<>>, procedure_order |-> <<>>]

SIdle ==
    /\ s_pc = "idle"
    /\ soa_config = <<>>
    /\ row_cells = <<>>
    /\ tree0_children = <<>>
    /\ table_children = <<>>
    /\ soa_result = NoneResult
    /\ soa_outcome = "none"
    /\ schedule_csv = NoFile

NoFormsFile == <<"(no file)">>

FIdle ==
    /\ f_pc = "idle"
    /\ ecrf_doc = <<>>
    /\ form_config = <<>>
    /\ extracted_forms = <<>>
    /\ form_trigger_lists = <<>>
    /\ forms_outcome = "none"
    /\ forms_csv = NoFormsFile

Runs == {1, 2}

\* the global before any entry point has assigned it
UnsetConfig == [unset |-> TRUE]

NoDecision == [rule |-> "none"]

CIdle ==
    /\ CONFIG = UnsetConfig
    /\ run_pc = [r \in Runs |-> "done"]
    /\ run_config_path = [r \in Runs |-> ""]
    /\ run_calls = [r \in Runs |-> 0]
    /\ last_decision = [r \in Runs |-> NoDecision]

DIdle ==
    /\ d_pc = "idle"
    /\ src_args = <<>>
    /\ src_result = ""

IIdle ==
    /\ i_pc = "idle"
    /\ form_tables = <<>>
    /\ item_config = <<>>
    /\ unique_items = <<>>
    /\ item_rows = <<>>

EIdle ==
    /\ e_pc = "idle"
    /\ soa_tables = <<>>
    /\ event_config = <<>>
    /\ normalized = <<>>
    /\ soa_df = <<>>
    /\ visits_df = <<>>

RIdle ==
    /\ h_elements = <<>>
    /\ h_given = <<>>
    /\ h_returned = <<>>

TIdle ==
    /\ dt_pc = "idle"
    /\ dt_option_node = <<>>
    /\ dt_config = <<>>
    /\ dt_content = <<>>
    /\ dt_result = ""

GIdle ==
    /\ g_pc = "idle"
    /\ config_on_disk = <<>>
    /\ configs = <<>>
    /\ rules_config = UnsetConfig
    /\ warnings = <<>>

XIdle ==
    /\ x_pc = "idle"
    /\ protocol_doc = <<>>
    /\ group_config = <<>>
    /\ extracted_df = <<>>
    /\ extension_start_week = [finite |-> FALSE, week |-> 0]
    /\ grouped_df = <<>>

BIdle ==
    /\ JOBS = <<>>
    /\ responses = <<>>
    /\ workbooks = {}
    /\ download_response = [job_id |-> 0, code |-> 0]

(***************************************************************************)
(* Generic helpers                                                         *)
(***************************************************************************)
Range(s) == {s[i] : i \in DOMAIN s}

Last(s) == s[Len(s)]

Front(s) == SubSeq(s, 1, Len(s) - 1)

SetMax(S) == CHOOSE x \in S : \A y \in S : y <= x

SetMin(S) == CHOOSE x \in S : \A y \in S : x <= y

\* texts as sequences of one-character strings
UpperLetters ==
    <<"A", "B", "C", "D", "E", "F", "G", "H", "I", "J", "K", "L", "M",
      "N", "O", "P", "Q", "R", "S", "T", "U", "V", "W", "X", "Y", "Z">>

LowerLetters ==
    <<"a", "b", "c", "d", "e", "f", "g", "h", "i", "j", "k", "l", "m",
      "n", "o", "p", "q", "r", "s", "t", "u", "v", "w", "x", "y", "z">>

Digits == {"0", "1", "2", "3", "4", "5", "6", "7", "8", "9"}

UpperLetterSet == {UpperLetters[i] : i \in DOMAIN UpperLetters}

LowerLetterSet == {LowerLetters[i] : i \in DOMAIN LowerLetters}

IsUpperLetter(c) == c \in UpperLetterSet

IsLowerLetter(c) == c \in LowerLetterSet

UpperOf ==
    [c \in LowerLetterSet |-> UpperLetters[CHOOSE i \in DOMAIN LowerLetters : LowerLetters[i] = c]]

LowerOf ==
    [c \in UpperLetterSet |-> LowerLetters[CHOOSE i \in DOMAIN UpperLetters : UpperLetters[i] = c]]

\* str.upper() and str.lower(), one character at a time
ToUpperChar(c) == IF IsLowerLetter(c) THEN UpperOf[c] ELSE c

ToLowerChar(c) == IF IsUpperLetter(c) THEN LowerOf[c] ELSE c

ToUpper(str) == [i \in DOMAIN str |-> ToUpperChar(str[i])]

ToLower(str) == [i \in DOMAIN str |-> ToLowerChar(str[i])]

\* the text from position i on
From(str, i) == SubSeq(str, i, Len(str))

StartsWith(str, prefix) ==
    Len(prefix) <= Len(str) /\ SubSeq(str, 1, Len(prefix)) = prefix

\* re.search of a pattern made of literal characters
Contains(str, pat) ==
    \E i \in 1..(Len(str) - Len(pat) + 1) : \A k \in DOMAIN pat : str[i + k - 1] = pat[k]

\* an optional text: None or a string
NoneText == [none |-> TRUE, value |-> <<>>]

SomeText(chars) == [none |-> FALSE, value |-> chars]

\* d[k] = v on a Python dict modelled as a function on its key set
DictPut(d, k, v) == [x \in (DOMAIN d) \cup {k} |-> IF x = k THEN v ELSE d[x]]

\* del d[k] for every key in ks
DictDrop(d, ks) == [x \in (DOMAIN d) \ ks |-> d[x]]

(***************************************************************************)
(* Hierarchy Builder: src/Full_pipeline/json_struct_protocol.py            *)
(* A path is the sequence of its slash-separated components; the empty     *)
(* sequence is the empty path string.                                      *)
(***************************************************************************)
MaxElems == 4

\* Input paths used to drive the builder.
InputPaths ==
    { <<>>,
      <<"Document">>,
      <<"Document", "Title">>,
      <<"Document", "H1">>,
      <<"Document", "H2[2]">>,
      <<"Document", "P">>,
      <<"Document", "Table">>,
      <<"Document", "Table", "TR", "TD">>,
      <<"Document", "P", "Span">> }

InputTexts == {"t"}

\* get_header_level: /Title -> 0, /H<d>([n])? at the end -> d, else None (-1)
NoLevel == -1

SegHeaderLevel(seg) ==
    CASE seg = "Title" -> 0
      [] seg \in {"H1", "H1[2]"} -> 1
      [] seg \in {"H2", "H2[2]"} -> 2
      [] seg \in {"H3", "H3[2]"} -> 3
      [] OTHER -> NoLevel

get_header_level(path) ==
    IF Len(path) = 0 THEN NoLevel ELSE SegHeaderLevel(Last(path))

\* is_table_or_complex_structure: some component starts with one of the tags
ComplexSeg(seg) == seg \in {"TR", "TD", "TH", "LBody", "LI", "Lbl", "Caption", "Footnote", "Aside", "TD[2]", "TR[2]"}

is_table_or_complex_structure(path) == \E i \in DOMAIN path : ComplexSeg(path[i])

\* is_inline_content: the last component is exactly Span, Sub, StyleSpan or ExtraCharSpan
is_inline_content(path) ==
    Len(path) > 0 /\ Last(path) \in {"Span", "Sub", "StyleSpan", "ExtraCharSpan"}

\* is_top_level_table: the path is //Document/Table or //Document/Table[n]
is_top_level_table(path) ==
    Len(path) = 2 /\ path[1] = "Document" /\ path[2] \in {"Table", "Table[2]"}

\* get_parent_path: drop the last component; "" when at most one component
get_parent_path(path) == IF Len(path) <= 1 THEN <<>> ELSE Front(path)

PathName(path) == IF Len(path) = 0 THEN "" ELSE Last(path)

\* parent.setdefault("children", []).append(node)
AppendChildReplace(ch, parent, node) == [ch EXCEPT ![parent] = <<node>>]

AppendChild(ch, parent, node) == [ch EXCEPT ![parent] = Append(@, node)]

\* The builder's working state as one record, for the recursive helper.
HState(ns, ch, ctx, p2n) == [nodes |-> ns, children |-> ch, ctx |-> ctx, p2n |-> p2n]

\* Creating a node dict {"name","text","path","children": []}
NewNode(S, name, text, path) ==
    [S EXCEPT !.nodes = Append(@, [name |-> name, text |-> text, path |-> path]),
              !.children = Append(@, <<>>)]

\* ensure_path_exists(target_path): returns [st, node]
RECURSIVE ensure_path_exists(_, _)
ensure_path_exists(S, target) ==
    IF target = DocumentPath \/ target = <<>> THEN [st |-> S, node |-> RootId]
    ELSE IF target \in DOMAIN S.p2n THEN [st |-> S, node |-> S.p2n[target]]
    ELSE
        LET parent_path == get_parent_path(target)
            up == IF parent_path = DocumentPath \/ parent_path = <<>>
                  THEN [st |-> S, node |-> S.ctx[SetMax(DOMAIN S.ctx)]]
                  ELSE ensure_path_exists(S, parent_path)
            S1 == NewNode(up.st, PathName(target), "", target)
            id == Len(S1.nodes)
            S2 == [S1 EXCEPT !.p2n = DictPut(@, target, id),
                             !.children = AppendChild(@, up.node, id)]
        IN [st |-> S2, node |-> id]

\* One iteration of the loop of parse_hierarchy over an element {path, text}
ParseElement(S, path, text) ==
    IF PathName(path) = "Document" /\ path = DocumentPath THEN S
    ELSE
        LET S1 == NewNode(S, PathName(path), text, path)
            id == Len(S1.nodes)
            S2 == [S1 EXCEPT !.p2n = DictPut(@, path, id)]
            lvl == get_header_level(path)
        IN  IF lvl # NoLevel THEN
                LET below == {l \in DOMAIN S2.ctx : l < lvl}
                    parent_level == IF below = {} THEN 0 ELSE SetMax(below)
                    parent == S2.ctx[parent_level]
                    ctx1 == DictPut(S2.ctx, lvl, id)
                IN [S2 EXCEPT !.children = AppendChild(@, parent, id),
                              !.ctx = DictDrop(ctx1, {l \in DOMAIN ctx1 : l > lvl})]
            ELSE IF is_top_level_table(path) THEN
                [S2 EXCEPT !.children = AppendChild(@, S2.ctx[SetMax(DOMAIN S2.ctx)], id)]
            ELSE IF is_inline_content(path) \/ is_table_or_complex_structure(path) THEN
                LET up == ensure_path_exists(S2, get_parent_path(path))
                IN [up.st EXCEPT !.children = AppendChild(@, up.node, id)]
            ELSE
                [S2 EXCEPT !.children = AppendChild(@, S2.ctx[SetMax(DOMAIN S2.ctx)], id)]

HInit == HIdle /\ MIdle /\ SIdle /\ FIdle /\ CIdle /\ DIdle /\ IIdle /\ EIdle /\ RIdle /\ TIdle /\ GIdle /\ XIdle /\ BIdle

\* parse_hierarchy consumes the next element of its input list
HParseNext(path, text) ==
    /\ Len(elements) < MaxElems
    /\ UNCHANGED <<mvars, svars, fvars, cvars, dvars, ivars, evars, rvars, tvars, gvars, xvars, bvars>>
    /\ LET S == ParseElement(HState(nodes, children, header_context, path_to_node), path, text)
       IN /\ nodes' = S.nodes
          /\ children' = S.children
          /\ header_context' = S.ctx
          /\ path_to_node' = S.p2n
    /\ elements' = Append(elements, [path |-> path, text |-> text])

HNext == \E p \in InputPaths, t \in InputTexts : HParseNext(p, t)

SpecHierarchy == HInit /\ [][HNext]_vars

(***************************************************************************)
(* Tree shape of the builder's result                                      *)
(***************************************************************************)
NodeIds == 1..Len(nodes)

\* the places (parent, index) where node n occurs in a children list
Occurrences(n) ==
    {pi \in UNION {{<<p, i>> : i \in DOMAIN children[p]} : p \in NodeIds} :
        children[pi[1]][pi[2]] = n}

ParentsOf(n) == {p \in NodeIds : \E i \in DOMAIN children[p] : children[p][i] = n}

RECURSIVE AncestorsOf(_, _)
AncestorsOf(n, fuel) ==
    IF fuel = 0 THEN {}
    ELSE LET ps == ParentsOf(n)
         IN ps \cup UNION {AncestorsOf(p, fuel - 1) : p \in ps}

\* C9: after parse_hierarchy has processed any sequence of elements the result
\* is a tree with the single root "Document Root": the root is in no children
\* list, every other node is in the children list of exactly one node, exactly
\* once, and no node is its own ancestor.
C9_SingleRootTree ==
    /\ nodes[RootId].name = "Document Root"
    /\ Occurrences(RootId) = {}
    /\ \A n \in NodeIds \ {RootId} : Cardinality(Occurrences(n)) = 1
    /\ \A n \in NodeIds : n \notin AncestorsOf(n, Len(nodes))

\* C9 witness: a full input was consumed, a placeholder node was synthesized,
\* a heading replaced the context and some node has two children.
C9_Witness ==
    /\ Len(elements) = MaxElems
    /\ Len(nodes) > Len(elements) + 1
    /\ \E l \in DOMAIN header_context : l > 0
    /\ \E n \in NodeIds : Len(children[n]) >= 2

(***************************************************************************)
(* Matrix Reconciler:                                                      *)
(*   src/Full_pipeline (Copy)/backend/modules/common_matrix.py             *)
(* A string is the sequence of its characters. A Visits cell is the        *)
(* sequence of its tokens: visit codes, "," and " ".                       *)
(***************************************************************************)
MaxForms == 2

Min(a, b) == IF a <= b THEN a ELSE b

\* str.lower() on the characters in use
LowerChar(c) == CASE c = "A" -> "a" [] c = "B" -> "b" [] c = "C" -> "c" [] OTHER -> c

Lower(str) == [i \in DOMAIN str |-> LowerChar(str[i])]

\* SequenceMatcher.find_longest_match without junk: every common block <<i, j, k>>
CommonBlocks(a, b) ==
    {blk \in (1..Len(a)) \X (1..Len(b)) \X (1..Min(Len(a), Len(b))) :
        /\ blk[1] + blk[3] - 1 <= Len(a)
        /\ blk[2] + blk[3] - 1 <= Len(b)
        /\ SubSeq(a, blk[1], blk[1] + blk[3] - 1) = SubSeq(b, blk[2], blk[2] + blk[3] - 1)}

\* the longest block; of those the earliest in a; of those the earliest in b
LongestMatch(a, b) ==
    CHOOSE blk \in CommonBlocks(a, b) :
        \A o \in CommonBlocks(a, b) :
            \/ blk[3] > o[3]
            \/ blk[3] = o[3] /\ blk[1] < o[1]
            \/ blk[3] = o[3] /\ blk[1] = o[1] /\ blk[2] <= o[2]

\* SequenceMatcher.get_matching_blocks: total size of the matching blocks
RECURSIVE Matches(_, _)
Matches(a, b) ==
    IF CommonBlocks(a, b) = {} THEN 0
    ELSE LET blk == LongestMatch(a, b)
         IN blk[3]
            + Matches(SubSeq(a, 1, blk[1] - 1), SubSeq(b, 1, blk[2] - 1))
            + Matches(SubSeq(a, blk[1] + blk[3], Len(a)), SubSeq(b, blk[2] + blk[3], Len(b)))

\* fuzzy_match: SequenceMatcher(None, a, b).ratio() = 2*M/T as the fraction <<num, den>>
fuzzy_match(a, b, case_insensitive) ==
    LET x == IF case_insensitive THEN Lower(a) ELSE a
        y == IF case_insensitive THEN Lower(b) ELSE b
    IN IF Len(x) + Len(y) = 0 THEN <<1, 1>> ELSE <<2 * Matches(x, y), Len(x) + Len(y)>>

\* comparisons of scores kept as fractions with positive denominators
FracGT(p, q) == p[1] * q[2] > q[1] * p[2]

\* score >= threshold, the threshold given in tenths
ScoreReachesStrict(score, thr) == score[1] * 10 > thr * score[2]

ScoreReaches(score, thr) == score[1] * 10 >= thr * score[2]

UnmappedIndex == 9999

NoProc == <<"(None)">>

\* the loop over enumerate(proc_order) for one form label:
\* best == [score, idx, proc]
RECURSIVE BestMatch(_, _, _, _, _)
BestMatch(procs, idx, form_label, thr, best) ==
    IF idx > Len(procs) THEN best
    ELSE LET score == fuzzy_match(procs[idx], form_label, TRUE)
             nb == IF ScoreReaches(score, thr) /\ FracGT(score, best.score)
                   THEN [score |-> score, idx |-> idx - 1, proc |-> procs[idx]]
                   ELSE best
         IN BestMatch(procs, idx + 1, form_label, thr, nb)

InitialBest == [score |-> <<0, 1>>, idx |-> UnmappedIndex, proc |-> NoProc]

\* "if best_proc:" a procedure was chosen and its name is not empty
Truthy(proc) == proc # NoProc /\ Len(proc) > 0

\* extracted[form_label_col].unique()
UniqueLabels(rows) == {rows[i].label : i \in DOMAIN rows}

\* the form_order_map built by the mapping loop
BuildFormOrderMap(rows, procs, thr, incl) ==
    LET best(l) == BestMatch(procs, 1, l, thr, InitialBest)
        keys == {l \in UniqueLabels(rows) : Truthy(best(l).proc) \/ incl}
    IN [l \in keys |->
          IF Truthy(best(l).proc)
          THEN [index |-> best(l).idx, procedure |-> best(l).proc]
          ELSE [index |-> UnmappedIndex, procedure |-> <<"Unmapped">>]]

BuildUnmapped(rows, procs, thr) ==
    {l \in UniqueLabels(rows) : ~Truthy(BestMatch(procs, 1, l, thr, InitialBest).proc)}

\* form_order_map.get(x, {'index': 9999})['index']
SortIndex(fmap, label) == IF label \in DOMAIN fmap THEN fmap[label].index ELSE UnmappedIndex

\* sort_values('SortIndex') with pandas' default kind='quicksort', which is not
\* stable: any arrangement of the rows with non-decreasing SortIndex may result.
IndexPermutations(n) == {f \in [1..n -> 1..n] : \A i, j \in 1..n : i # j => f[i] # f[j]}

SortedArrangements(rows, fmap) ==
    {[i \in DOMAIN rows |-> rows[f[i]]] : f \in
        {g \in IndexPermutations(Len(rows)) :
            \A i, j \in 1..Len(rows) :
                i < j => SortIndex(fmap, rows[g[i]].label) <= SortIndex(fmap, rows[g[j]].label)}}

\* ", ".join(visits) as written to the Visits column by the form extractor
RECURSIVE JoinVisits(_)
JoinVisits(vs) ==
    IF Len(vs) = 0 THEN <<>>
    ELSE IF Len(vs) = 1 THEN <<vs[1]>>
    ELSE <<vs[1], ",", " ">> \o JoinVisits(Tail(vs))

\* str.split(separator): the pieces between separator tokens
RECURSIVE SplitOn(_, _, _)
SplitOn(str, sep, cur) ==
    IF Len(str) = 0 THEN <<cur>>
    ELSE IF Head(str) = sep THEN <<cur>> \o SplitOn(Tail(str), sep, <<>>)
    ELSE SplitOn(Tail(str), sep, Append(cur, Head(str)))

\* str.strip(): drop leading and trailing blanks
RECURSIVE Strip(_)
Strip(piece) ==
    IF Len(piece) = 0 THEN piece
    ELSE IF Head(piece) = " " THEN Strip(Tail(piece))
    ELSE IF Last(piece) = " " THEN Strip(Front(piece))
    ELSE piece

\* visits_list of a row: [] for a missing cell, else the stripped non-empty pieces
ParseVisits(visits_str) ==
    IF Len(visits_str) = 0 THEN <<>>
    ELSE LET pieces == SplitOn(visits_str, ",", <<>>)
         IN SelectSeq([i \in DOMAIN pieces |-> Strip(pieces[i])], LAMBDA x : Len(x) > 0)

Blank == 0

\* the numbering loop of one visit column: counter starts at 1
RECURSIVE AssignColumnEveryRow(_, _, _, _)
AssignColumnEveryRow(rows, visit, idx, counter) ==
    IF idx > Len(rows) THEN <<>>
    ELSE IF <<visit>> \in Range(ParseVisits(rows[idx].visits_str))
         THEN <<counter>> \o AssignColumnEveryRow(rows, visit, idx + 1, counter + 1)
         ELSE <<Blank>> \o AssignColumnEveryRow(rows, visit, idx + 1, counter + 1)

RECURSIVE AssignColumn(_, _, _, _)
AssignColumn(rows, visit, idx, counter) ==
    IF idx > Len(rows) THEN <<>>
    ELSE IF <<visit>> \in Range(ParseVisits(rows[idx].visits_str))
         THEN <<counter>> \o AssignColumn(rows, visit, idx + 1, counter + 1)
         ELSE <<Blank>> \o AssignColumn(rows, visit, idx + 1, counter)

\* visit columns of the schedule CSV
ScheduleVisits == <<"V1", "V2">>

BuildMatrix(rows) ==
    [r \in DOMAIN rows |->
        [label |-> rows[r].label, orig |-> rows[r].orig,
         cells |-> [v \in Range(ScheduleVisits) |-> AssignColumn(rows, v, 1, 1)[r]]]]

\* ---- inputs ----
FormLabels == { <<"a", "b">>, <<"A", "b", "c">>, <<"x", "y">> }

ProcLists == { << <<"a", "b">> >>, << <<"c", "d">> >>,
               << <<"a", "b">>, <<"c", "d">> >>, << <<"c", "d">>, <<"a", "b">> >> }

FormVisitLists == { <<>>, <<"V2">>, <<"V1", "V2">> }

Thresholds == {0, 5, 8}

FormTables ==
    UNION {[1..n -> FormLabels \X FormVisitLists] : n \in 1..MaxForms}

MInit ==
    /\ HIdle /\ SIdle /\ FIdle /\ CIdle /\ DIdle /\ IIdle /\ EIdle /\ RIdle /\ TIdle /\ GIdle /\ XIdle /\ BIdle
    /\ m_pc = "loaded"
    /\ \E t \in FormTables :
         extracted = [i \in DOMAIN t |->
                        [label |-> t[i][1], visits |-> t[i][2],
                         visits_str |-> JoinVisits(t[i][2]), orig |-> i]]
    /\ proc_order \in ProcLists
    /\ threshold \in Thresholds
    /\ include_unmapped \in BOOLEAN
    /\ form_order_map = <<>>
    /\ unmapped_forms = {}
    /\ ex_sorted = <<>>
    /\ matrix_df = <<>>

\* generate_ordered_soa_matrix, from the loaded tables to the returned matrix
GenerateOrderedSoaMatrix ==
    /\ m_pc = "loaded"
    /\ LET fmap == BuildFormOrderMap(extracted, proc_order, threshold, include_unmapped)
       IN /\ form_order_map' = fmap
          /\ unmapped_forms' = BuildUnmapped(extracted, proc_order, threshold)
          /\ \E sorted \in SortedArrangements(extracted, fmap) :
                /\ ex_sorted' = sorted
                /\ matrix_df' = BuildMatrix(sorted)
    /\ m_pc' = "done"
    /\ UNCHANGED <<extracted, proc_order, threshold, include_unmapped>>
    /\ UNCHANGED <<hvars, svars, fvars, cvars, dvars, ivars, evars, rvars, tvars, gvars, xvars, bvars>>

MNext == GenerateOrderedSoaMatrix

SpecMatrix == MInit /\ [][MNext]_vars

(***************************************************************************)
(* Schedule (SoA) Parser:                                                  *)
(*   src/Full_pipeline/backend/PTD_Gen/modules/soa_parser.py               *)
(* The protocol tree is a list of Table nodes, each with a children list   *)
(* of TR nodes; a TR node is known by its id and its flattened cell texts. *)
(***************************************************************************)
MaxSoaRows == 3

NoneStr == "(None)"

\* config.get(key, default)
Get(cfg, key, default) == IF key \in DOMAIN cfg THEN cfg[key] ELSE default

\* the regular expressions in use, by name
VisitPattern == "\\bV\\d+[A-Z]*\\b"

MergeVisitPattern == "\\b(?:V|P)\\d+[A-Za-z]*\\b"

MarkerPattern == "\\b(?:X|YES|Y)\\b"

\* re.findall(pattern, text, re.IGNORECASE) for the visit patterns
FindAll(pattern, text) ==
    IF pattern \in {VisitPattern, MergeVisitPattern}
    THEN CASE text \in {"V1", "V2", "V3"} -> <<text>>
           [] text = "see V1 note" -> <<"V1">>
           [] OTHER -> <<>>
    ELSE <<>>

\* len() of the strings in use
StrLen(text) ==
    CASE text \in {"V1", "V2", "V3"} -> 2
      [] text = "X" -> 1
      [] text = "" -> 0
      [] text = "ECG" -> 3
      [] text = "Procedure" -> 9
      [] text = "see V1 note" -> 11
      [] OTHER -> 5

\* len(text.replace(' ', '').replace('(', '').replace(')', '').replace('-', ''))
NoSpaceLen(text) == IF text = "see V1 note" THEN 9 ELSE StrLen(text)

\* extract_complete_visit_identifier: the longest match of the first pattern whose
\* longest match covers more than 30% of the text
RECURSIVE extract_complete_visit_identifier(_, _)
extract_complete_visit_identifier(text, patterns) ==
    IF Len(patterns) = 0 THEN NoneStr
    ELSE LET matches == FindAll(Head(patterns), text)
         IN IF Len(matches) > 0 /\ 10 * StrLen(matches[1]) > 3 * NoSpaceLen(text)
            THEN matches[1]
            ELSE extract_complete_visit_identifier(text, Tail(patterns))

\* str.lower() of the cell texts and filter terms in use
CellLower(text) ==
    CASE text = "Procedure" -> "procedure"
      [] text = "Visit" -> "visit"
      [] text = "ECG" -> "ecg"
      [] text = "Labs" -> "labs"
      [] text = "Notes" -> "notes"
      [] text = "X" -> "x"
      [] text = "V1" -> "v1"
      [] text = "V2" -> "v2"
      [] text = "V3" -> "v3"
      [] OTHER -> text

\* cell_has_marker: re.search of any marker pattern
cell_has_marker(text, markers) ==
    \E i \in DOMAIN markers : markers[i] = MarkerPattern /\ text = "X"

\* re.search(keyword, row_text) on the lowercased row text
KeywordHit(keyword, row) ==
    \E i \in DOMAIN row : keyword = "procedure" /\ row[i] = "Procedure"

\* re.match(pattern, first_cell, re.IGNORECASE) for the section breaks
SectionBreakHit(pattern, first_cell) == pattern = "^notes" /\ first_cell = "Notes"

\* sum(1 for cell in row if extract_complete_visit_identifier(cell, pats))
VisitIdCount(row, pats) ==
    Cardinality({i \in DOMAIN row : extract_complete_visit_identifier(row[i], pats) # NoneStr})

\* detect_visit_header_row: score of one row
HeaderScore(row, cfg) ==
    LET pats == Get(cfg, "visit_patterns", <<>>)
        kws == Get(cfg, "header_keywords", <<>>)
        ids == {extract_complete_visit_identifier(row[i], pats) : i \in DOMAIN row} \ {NoneStr}
    IN Cardinality(ids) + 2 * Cardinality({k \in DOMAIN kws : KeywordHit(kws[k], row)})

RECURSIVE DetectFrom(_, _, _, _, _)
DetectFrom(all_rows, cfg, idx, best_row, best_score) ==
    IF idx > Len(all_rows) THEN best_row
    ELSE LET row == all_rows[idx]
             score == HeaderScore(row, cfg)
         IN IF Len(row) > 0 /\ score > best_score /\ score >= Get(cfg, "min_visit_count", 3)
            THEN DetectFrom(all_rows, cfg, idx + 1, row, score)
            ELSE DetectFrom(all_rows, cfg, idx + 1, best_row, best_score)

NoRow == <<NoneStr>>

detect_visit_header_row(all_rows, cfg) == DetectFrom(all_rows, cfg, 1, NoRow, 0)

\* has_markers of a row over the visit columns (columns are 0-based in the code)
RowHasMarkers(row, cols, markers) ==
    \E c \in cols : c + 1 <= Len(row) /\ cell_has_marker(row[c + 1], markers)

\* find_schedule_end: the scanning loop, rows indexed from 0 as in the code
RECURSIVE ScheduleEndFrom(_, _, _, _, _, _)
ScheduleEndFrom(all_rows, cols, cfg, i, procedure_count, consecutive) ==
    IF i >= Len(all_rows) THEN Len(all_rows)
    ELSE LET row == all_rows[i + 1]
             markers == Get(cfg, "cell_markers", <<MarkerPattern>>)
             breaks == Get(cfg, "section_breaks", <<>>)
             min_procedures == Get(cfg, "min_procedures", 25)
             limit == Get(cfg, "consecutive_non_procedures_threshold", 25)
         IN IF Len(row) = 0 THEN ScheduleEndFrom(all_rows, cols, cfg, i + 1, procedure_count, consecutive)
            ELSE IF RowHasMarkers(row, cols, markers)
                 THEN ScheduleEndFrom(all_rows, cols, cfg, i + 1, procedure_count + 1, 0)
            ELSE IF procedure_count >= min_procedures /\ consecutive + 1 > limit THEN i
            ELSE IF procedure_count >= min_procedures
                    /\ \E b \in DOMAIN breaks : SectionBreakHit(breaks[b], row[1])
                 THEN i
            ELSE ScheduleEndFrom(all_rows, cols, cfg, i + 1, procedure_count, consecutive + 1)

\* the scanning loop without the minimum procedure count
find_schedule_end_no_minimum(all_rows, cols, start_from, cfg) ==
    ScheduleEndFrom(all_rows, cols, [min_procedures |-> 0] @@ cfg, start_from, 0, 0)

find_schedule_end(all_rows, cols, start_from, cfg) ==
    ScheduleEndFrom(all_rows, cols, cfg, start_from, 0, 0)

\* flattened rows of a table: [flatten_row(row) for row in find_nodes_by_name(table, "TR")]
TableContent(tch, cells, t) == [i \in DOMAIN tch[t] |-> cells[tch[t][i]]]

\* a table has a row with at least `least` visit identifiers under `pats`
HasVisitRow(content, pats, least) ==
    \E r \in DOMAIN content : VisitIdCount(content[r], pats) >= least

\* merge_broken_tables: the loop over the tables; M == [tch, merged, buffer, bhv]
NoBuffer == 0

RECURSIVE MergeFrom(_, _, _)
MergeFrom(M, cells, t) ==
    IF t > Len(M.tch) THEN
        IF M.buffer # NoBuffer THEN [M EXCEPT !.merged = Append(@, M.buffer)] ELSE M
    ELSE
        LET rows == M.tch[t]
            has_visits == HasVisitRow(TableContent(M.tch, cells, t), <<MergeVisitPattern>>, 2)
            M1 == IF M.buffer = NoBuffer THEN
                      [M EXCEPT !.buffer = t, !.bhv = has_visits]
                  ELSE IF ~has_visits THEN
                      [M EXCEPT !.tch[M.buffer] = @ \o rows]
                  ELSE IF M.bhv THEN
                      [M EXCEPT !.merged = Append(@, M.buffer), !.buffer = t, !.bhv = TRUE]
                  ELSE
                      [M EXCEPT !.tch[t] = M.tch[M.buffer] \o @, !.buffer = t, !.bhv = TRUE]
        IN MergeFrom(M1, cells, t + 1)

merge_broken_tables(tch, cells) ==
    MergeFrom([tch |-> tch, merged |-> <<>>, buffer |-> NoBuffer, bhv |-> FALSE], cells, 1)

\* find_all_schedule_tables: [tch: the tree afterwards, tables: the schedule tables]
find_all_schedule_tables(tch, cells, cfg) ==
    LET M == merge_broken_tables(tch, cells)
        pats == Get(cfg, "visit_patterns", <<>>)
        least == Get(cfg, "min_visit_count", 3)
    IN [tch |-> M.tch,
        tables |-> SelectSeq(M.merged,
                     LAMBDA t : HasVisitRow(TableContent(M.tch, cells, t), pats, least))]

RECURSIVE Flatten(_)
Flatten(seqs) == IF Len(seqs) = 0 THEN <<>> ELSE Head(seqs) \o Flatten(Tail(seqs))

\* takes the first candidate name, seen or not
FirstName(original, counter, seen) == <<original, counter>>

\* the renaming loop: original, original_1, original_2, ... until unseen.
\* A visit name is <<original, n>>: n = 0 for the identifier itself, else original_n.
RECURSIVE UnseenName(_, _, _)
UnseenName(original, counter, seen) ==
    LET name == <<original, counter>>
    IN IF name \in seen THEN UnseenName(original, counter + 1, seen) ELSE name

\* the loop over enumerate(visit_row): V == [column_to_visit, visit_order]
RECURSIVE VisitColumnsFrom(_, _, _, _)
VisitColumnsFrom(visit_row, pats, i, V) ==
    IF i >= Len(visit_row) THEN V
    ELSE LET visit_id == extract_complete_visit_identifier(visit_row[i + 1], pats)
         IN IF visit_id = NoneStr THEN VisitColumnsFrom(visit_row, pats, i + 1, V)
            ELSE LET name == UnseenName(visit_id, 0, Range(V.visit_order))
                 IN VisitColumnsFrom(visit_row, pats, i + 1,
                        [column_to_visit |-> DictPut(V.column_to_visit, i, name),
                         visit_order |-> Append(V.visit_order, name)])

FirstIndexOf(all_rows, row) ==
    IF \E i \in DOMAIN all_rows : all_rows[i] = row
    THEN (CHOOSE i \in DOMAIN all_rows :
             all_rows[i] = row /\ \A j \in 1..(i - 1) : all_rows[j] # row) - 1
    ELSE -1

\* the scan of the rows between the header row and the schedule end;
\* P == [schedule, procedure_order]
RECURSIVE ScanProcedures(_, _, _, _, _, _)
ScanProcedures(all_rows, colmap, cfg, i, end_index, P) ==
    IF i >= end_index \/ i >= Len(all_rows) THEN P
    ELSE LET row == all_rows[i + 1]
             pats == Get(cfg, "visit_patterns", <<>>)
             markers == Get(cfg, "cell_markers", <<>>)
             filters == Get(cfg, "procedure_filters", <<>>)
             first_cell == IF Len(row) > 0 THEN row[1] ELSE ""
             skip_row == \E f \in DOMAIN filters :
                            \/ CellLower(first_cell) = CellLower(filters[f])
                            \/ extract_complete_visit_identifier(first_cell, pats) # NoneStr
             marked == {c \in DOMAIN colmap : c + 1 <= Len(row) /\ cell_has_marker(row[c + 1], markers)}
             order1 == IF first_cell \in Range(P.procedure_order) THEN P.procedure_order
                       ELSE Append(P.procedure_order, first_cell)
             touched == {colmap[c] : c \in marked}
             sched1 == [v \in (DOMAIN P.schedule) \cup touched |->
                          LET old == IF v \in DOMAIN P.schedule THEN P.schedule[v] ELSE <<>>
                              hits == Cardinality({c \in marked : colmap[c] = v})
                          IN IF hits = 0 THEN old ELSE Append(old, first_cell)]
         IN IF Len(row) = 0 \/ skip_row \/ marked = {}
            THEN ScanProcedures(all_rows, colmap, cfg, i + 1, end_index, P)
            ELSE ScanProcedures(all_rows, colmap, cfg, i + 1, end_index,
                                [schedule |-> sched1, procedure_order |-> order1])

\* parse_protocol_schedule: [tch, result]; result is (schedule, visit_order,
\* procedure_order) or NoneResult for (None, None, None)
parse_protocol_schedule(tch, cells, cfg) ==
    LET F == find_all_schedule_tables(tch, cells, cfg)
        all_rows == Flatten([k \in DOMAIN F.tables |-> TableContent(F.tch, cells, F.tables[k])])
        visit_row == detect_visit_header_row(all_rows, cfg)
        V == VisitColumnsFrom(visit_row, Get(cfg, "visit_patterns", <<>>), 0,
                              [column_to_visit |-> <<>>, visit_order |-> <<>>])
        header_row_index == FirstIndexOf(all_rows, visit_row)
        end_index == find_schedule_end(all_rows, DOMAIN V.column_to_visit, header_row_index + 1, cfg)
        P == ScanProcedures(all_rows, V.column_to_visit, cfg, header_row_index + 1, end_index,
                            [schedule |-> <<>>, procedure_order |-> <<>>])
    IN [tch |-> F.tch,
        result |-> IF Len(F.tables) = 0 THEN NoneResult
                   ELSE IF visit_row = NoRow THEN NoneResult
                   ELSE IF Len(V.visit_order) = 0 THEN NoneResult
                   ELSE [none |-> FALSE, schedule |-> P.schedule,
                         visit_order |-> V.visit_order,
                         procedure_order |-> P.procedure_order]]

\* "if schedule:" a dict that is not None and not empty
ScheduleTruthyNotNone(result) == ~result.none

ScheduleTruthy(result) == ~result.none /\ DOMAIN result.schedule # {}

\* save_schedule_to_csv: the X marks of the procedure x visit grid
ScheduleCsv(result) ==
    [procedures |-> result.procedure_order, visits |-> result.visit_order,
     marks |-> {pv \in Range(result.procedure_order) \X Range(result.visit_order) :
                  /\ pv[2] \in DOMAIN result.schedule
                  /\ pv[1] \in Range(result.schedule[pv[2]])}]

\* "if not schedule: return" writes nothing
save_schedule_to_csv(result) ==
    IF result.none \/ DOMAIN result.schedule = {} THEN NoFile ELSE ScheduleCsv(result)

\* ---- inputs ----
RowKinds ==
    { <<"Procedure", "V1", "V1", "V2">>,
      <<"Procedure", "V2", "V1", "V2", "V2">>,
      <<"ECG", "V1", "V1", "V1">>,
      <<"Visit", "V1", "V2">>,
      <<"ECG", "X", "", "X">>,
      <<"Notes", "see V1 note", "", "">> }

SoaConfigs ==
    { <<>>,
      [visit_patterns |-> <<VisitPattern>>, header_keywords |-> <<"procedure">>,
       cell_markers |-> <<MarkerPattern>>, min_procedures |-> 1,
       consecutive_non_procedures_threshold |-> 0, section_breaks |-> <<"^notes">>] }

\* a protocol tree: its rows in document order, each either opening a new
\* Table or continuing the current one
RowLayouts ==
    UNION {[1..n -> BOOLEAN \X RowKinds] : n \in 1..MaxSoaRows}

TableStarts(layout) == {i \in DOMAIN layout : i = 1 \/ layout[i][1]}

TablesOf(layout) ==
    LET starts == TableStarts(layout)
        nth(k) == CHOOSE i \in starts : Cardinality({j \in starts : j <= i}) = k
        rowsOf(k) == {i \in DOMAIN layout : i >= nth(k) /\ \A j \in starts : j > nth(k) => i < j}
    IN [k \in 1..Cardinality(starts) |->
          [m \in 1..Cardinality(rowsOf(k)) |-> nth(k) + m - 1]]

SInit ==
    /\ HIdle /\ MIdle /\ FIdle /\ CIdle /\ DIdle /\ IIdle /\ EIdle /\ RIdle /\ TIdle /\ GIdle /\ XIdle /\ BIdle
    /\ s_pc = "loaded"
    /\ soa_config \in SoaConfigs
    /\ \E layout \in RowLayouts :
          /\ layout[1][1] = TRUE
          /\ row_cells = [i \in DOMAIN layout |-> layout[i][2]]
          /\ tree0_children = TablesOf(layout)
          /\ table_children = TablesOf(layout)
    /\ soa_result = NoneResult
    /\ soa_outcome = "none"
    /\ schedule_csv = NoFile

\* parse_soa, from the loaded protocol tree to its return or its exception
ParseSoa ==
    /\ s_pc = "loaded"
    /\ LET R == parse_protocol_schedule(table_children, row_cells, soa_config)
       IN /\ table_children' = R.tch
          /\ soa_result' = R.result
          /\ IF ScheduleTruthy(R.result)
             THEN /\ schedule_csv' = save_schedule_to_csv(R.result)
                  /\ soa_outcome' = "returned"
             ELSE /\ schedule_csv' = schedule_csv
                  /\ soa_outcome' = "raised"
    /\ s_pc' = "done"
    /\ UNCHANGED <<soa_config, row_cells, tree0_children>>
    /\ UNCHANGED <<hvars, mvars, fvars, cvars, dvars, ivars, evars, rvars, tvars, gvars, xvars, bvars>>

SNext == ParseSoa

SpecSoa == SInit /\ [][SNext]_vars

\* ---- the scan below the header row: one table whose first row is the
\* visit header, followed by procedure, filtered, visit-like, note and
\* empty rows ----
ScanHeaderRow == <<"Procedure", "V1", "V2">>

\* the visit columns of the header row
ScanVisitColumns == Cardinality({i \in DOMAIN ScanHeaderRow : ScanHeaderRow[i] \in {"V1", "V2"}})

ScanRowKinds ==
    { <<"ECG", "X", "">>,
      <<"Labs", "", "X">>,
      <<"Visit", "X", "X">>,
      <<"V3", "X", "">>,
      <<"Notes", "", "">>,
      <<>> }

ScanConfigs ==
    { [visit_patterns |-> <<VisitPattern>>, header_keywords |-> <<"procedure">>,
       min_visit_count |-> ScanVisitColumns,
       cell_markers |-> <<MarkerPattern>>, procedure_filters |-> filters,
       min_procedures |-> least, consecutive_non_procedures_threshold |-> limit,
       section_breaks |-> breaks] :
      filters \in {<<>>, <<"visit">>}, least \in {1, 2}, limit \in {0, 1},
      breaks \in {<<>>, <<"^notes">>} }

ScanTables(n) == [1..n -> ScanRowKinds]

SInitScan ==
    /\ HIdle /\ MIdle /\ FIdle /\ CIdle /\ DIdle /\ IIdle /\ EIdle /\ RIdle /\ TIdle /\ GIdle /\ XIdle /\ BIdle
    /\ s_pc = "loaded"
    /\ soa_config \in ScanConfigs
    /\ \E n \in 1..MaxSoaRows : \E below \in ScanTables(n) :
          /\ row_cells = <<ScanHeaderRow>> \o below
          /\ tree0_children = << [i \in 1..(n + 1) |-> i] >>
          /\ table_children = << [i \in 1..(n + 1) |-> i] >>
    /\ soa_result = NoneResult
    /\ soa_outcome = "none"
    /\ schedule_csv = NoFile

SpecScan == SInitScan /\ [][SNext]_vars

(***************************************************************************)
(* Form Extractor:                                                         *)
(*   src/Full_pipeline (Copy)/PTD_Gen/modules/form_extractor.py            *)
(* The eCRF tree is held in pre-order with the depth of every node below   *)
(* the document root; the subtree of a node is the run of deeper nodes     *)
(* that follows it.                                                        *)
(***************************************************************************)
MaxFormNodes == 3

\* is_valid_form_name with the default patterns: a bracketed upper-case code of
\* at least 3 characters (the texts in use have no "repeating" phrase)
is_valid_form_name(text) == text \in {"[DEMOG]", "[VITALS]", "[ENR]"}

\* is_valid_form_label: length 3..100 and none of the invalid patterns
is_valid_form_label(text) ==
    text \in {"Section A", "Demographics", "[DEMOG]", "[VITALS]", "[ENR]", "V10 V2 V1A V1",
              "EOT V10000 V2", "If yes, complete the AE form",
              "Form is triggered  by consent", "If yes, stop"}

\* the default of config.get('visit_patterns', ...)
DefaultVisitPattern == "\\bV\\d+[A-Z]*(?:-\\d+)?\\b"

\* a configured pattern for a visit code without number
EotPattern == "\\bEOT\\b"

\* visit_pattern.findall(text) with re.IGNORECASE, as a set
FindVisitCodes(pattern, text) ==
    IF pattern = DefaultVisitPattern
    THEN CASE text = "V1" -> {"V1"}
           [] text = "V2" -> {"V2"}
           [] text = "V10 V2 V1A V1" -> {"V10", "V2", "V1A", "V1"}
           [] text = "EOT V10000 V2" -> {"V10000", "V2"}
           [] OTHER -> {}
    ELSE IF pattern = EotPattern /\ text = "EOT V10000 V2" THEN {"EOT"}
    ELSE {}

\* extract_visit_strings: the matches of every configured pattern
extract_visit_strings(text, patterns) ==
    UNION {FindVisitCodes(patterns[p], text) : p \in DOMAIN patterns}

\* re.search(pattern, form_name, re.IGNORECASE) for the ignore patterns
IgnoreHit(pattern, form_name) == pattern = "VITALS" /\ form_name = "[VITALS]"

\* int(re.search(r'\d+', x).group()) if there is a digit, else 9999
VisitNumber(v) ==
    CASE v = "V1" -> 1 [] v = "V2" -> 2 [] v = "V10" -> 10 [] v = "V1A" -> 1
      [] v = "V10000" -> 10000 [] OTHER -> 9999

\* string order of the visit codes in use
LexRank(v) ==
    CASE v = "EOT" -> 1 [] v = "V1" -> 2 [] v = "V10" -> 3 [] v = "V10000" -> 4
      [] v = "V1A" -> 5 [] v = "V2" -> 6 [] OTHER -> 7

\* the order of the strings alone
VisitKeyLexLess(a, b) == LexRank(a) < LexRank(b)

VisitKeyLess(a, b) ==
    \/ VisitNumber(a) < VisitNumber(b)
    \/ VisitNumber(a) = VisitNumber(b) /\ LexRank(a) < LexRank(b)

\* sorted(form_visits, key=lambda x: (number or 9999, x))
RECURSIVE SortVisits(_)
SortVisits(vs) ==
    IF vs = {} THEN <<>>
    ELSE LET m == CHOOSE x \in vs : \A y \in vs \ {x} : VisitKeyLess(x, y)
         IN <<m>> \o SortVisits(vs \ {m})

SubtreeEnd(doc, i) ==
    IF \E j \in (i + 1)..Len(doc) : doc[j].depth <= doc[i].depth
    THEN (CHOOSE j \in (i + 1)..Len(doc) :
              /\ doc[j].depth <= doc[i].depth
              /\ \A k \in (i + 1)..(j - 1) : doc[k].depth > doc[i].depth) - 1
    ELSE Len(doc)

Subtree(doc, i) == i..SubtreeEnd(doc, i)

\* the nodes on the path from node a down to node j, both included
PathBetween(doc, a, j) == {k \in a..j : j \in Subtree(doc, k)}

\* deep_search_visits: the visit strings of a node and all its descendants
deep_search_visits(doc, i, patterns) ==
    UNION {extract_visit_strings(doc[k].text, patterns) : k \in Subtree(doc, i)}

\* gather_h1_sections: every node whose name starts with H1, in pre-order
H1Sections(doc) == SelectSeq([i \in DOMAIN doc |-> i], LAMBDA i : doc[i].name = "H1")

\* h1_text, "Unknown Section" when the heading is no valid label
H1Text(doc, h) ==
    IF is_valid_form_label(doc[h].text) THEN doc[h].text ELSE "Unknown Section"

\* a form node whose name matches an ignore pattern: find_forms_in_node returns
\* there without descending
IsIgnoredForm(doc, cfg, k) ==
    /\ is_valid_form_name(doc[k].text)
    /\ \E p \in DOMAIN Get(cfg, "ignore_patterns", <<>>) :
          IgnoreHit(Get(cfg, "ignore_patterns", <<>>)[p], doc[k].text)

\* find_forms_in_node reaches node j from the section h
Reached(doc, cfg, h, j) ==
    /\ j \in Subtree(doc, h)
    /\ \A k \in PathBetween(doc, h, j) \ {j} : ~IsIgnoredForm(doc, cfg, k)

\* current_label at node j: the text of the nearest H2 on the path from the
\* section whose text is a valid label and no form name; NoneStr without one
CurrentLabel(doc, h, j) ==
    LET h2s == {k \in PathBetween(doc, h, j) :
                   /\ doc[k].name = "H2"
                   /\ is_valid_form_label(doc[k].text)
                   /\ ~is_valid_form_name(doc[k].text)}
    IN IF h2s = {} THEN NoneStr ELSE doc[SetMax(h2s)].text

\* ---- dynamic triggers ----
\* a trigger sentence longer than the 300-character limit
LongTriggerText ==
    "If yes, complete the additional assessment form complete the additional assessment form complete the additional assessment form complete the additional assessment form complete the additional assessment form complete the additional assessment form complete the additional assessment form complete the additional assessment form"

LongTriggerChars ==
    <<"I", "f", " ", "y", "e", "s", ",", " ", "c", "o", "m", "p", "l", "e", "t", "e",
    " ", "t", "h", "e", " ", "a", "d", "d", "i", "t", "i", "o", "n", "a", "l", " ",
    "a", "s", "s", "e", "s", "s", "m", "e", "n", "t", " ", "f", "o", "r", "m", " ",
    "c", "o", "m", "p", "l", "e", "t", "e", " ", "t", "h", "e", " ", "a", "d", "d",
    "i", "t", "i", "o", "n", "a", "l", " ", "a", "s", "s", "e", "s", "s", "m", "e",
    "n", "t", " ", "f", "o", "r", "m", " ", "c", "o", "m", "p", "l", "e", "t", "e",
    " ", "t", "h", "e", " ", "a", "d", "d", "i", "t", "i", "o", "n", "a", "l", " ",
    "a", "s", "s", "e", "s", "s", "m", "e", "n", "t", " ", "f", "o", "r", "m", " ",
    "c", "o", "m", "p", "l", "e", "t", "e", " ", "t", "h", "e", " ", "a", "d", "d",
    "i", "t", "i", "o", "n", "a", "l", " ", "a", "s", "s", "e", "s", "s", "m", "e",
    "n", "t", " ", "f", "o", "r", "m", " ", "c", "o", "m", "p", "l", "e", "t", "e",
    " ", "t", "h", "e", " ", "a", "d", "d", "i", "t", "i", "o", "n", "a", "l", " ",
    "a", "s", "s", "e", "s", "s", "m", "e", "n", "t", " ", "f", "o", "r", "m", " ",
    "c", "o", "m", "p", "l", "e", "t", "e", " ", "t", "h", "e", " ", "a", "d", "d",
    "i", "t", "i", "o", "n", "a", "l", " ", "a", "s", "s", "e", "s", "s", "m", "e",
    "n", "t", " ", "f", "o", "r", "m", " ", "c", "o", "m", "p", "l", "e", "t", "e",
    " ", "t", "h", "e", " ", "a", "d", "d", "i", "t", "i", "o", "n", "a", "l", " ",
    "a", "s", "s", "e", "s", "s", "m", "e", "n", "t", " ", "f", "o", "r", "m", " ",
    "c", "o", "m", "p", "l", "e", "t", "e", " ", "t", "h", "e", " ", "a", "d", "d",
    "i", "t", "i", "o", "n", "a", "l", " ", "a", "s", "s", "e", "s", "s", "m", "e",
    "n", "t", " ", "f", "o", "r", "m">>

\* a legend that the required pattern matches
RequiredLegend == "Key: [*] = Item is required."

RequiredLegendChars ==
    <<"K", "e", "y", ":", " ", "[", "*", "]", " ", "=", " ", "I", "t", "e", "m", " ",
      "i", "s", " ", "r", "e", "q", "u", "i", "r", "e", "d", ".">>

\* the characters of the node texts in use
TextChars(text) ==
    CASE text = "Section A" -> <<"S", "e", "c", "t", "i", "o", "n", " ", "A">>
      [] text = "Demographics" -> <<"D", "e", "m", "o", "g", "r", "a", "p", "h", "i", "c", "s">>
      [] text = "[DEMOG]" -> <<"[", "D", "E", "M", "O", "G", "]">>
      [] text = "[VITALS]" -> <<"[", "V", "I", "T", "A", "L", "S", "]">>
      [] text = "[ENR]" -> <<"[", "E", "N", "R", "]">>
      [] text = "V1" -> <<"V", "1">>
      [] text = "V2" -> <<"V", "2">>
      [] text = "V10 V2 V1A V1" -> <<"V", "1", "0", " ", "V", "2", " ", "V", "1", "A", " ", "V", "1">>
      [] text = "EOT V10000 V2" -> <<"E", "O", "T", " ", "V", "1", "0", "0", "0", "0", " ", "V", "2">>
      [] text = "If yes, complete the AE form" -> <<"I", "f", " ", "y", "e", "s", ",", " ", "c", "o", "m", "p", "l", "e", "t", "e", " ", "t", "h", "e", " ", "A", "E", " ", "f", "o", "r", "m">>
      [] text = "Form is triggered  by consent" -> <<"F", "o", "r", "m", " ", "i", "s", " ", "t", "r", "i", "g", "g", "e", "r", "e", "d", " ", " ", "b", "y", " ", "c", "o", "n", "s", "e", "n", "t">>
      [] text = "If yes, stop" -> <<"I", "f", " ", "y", "e", "s", ",", " ", "s", "t", "o", "p">>
      [] text = LongTriggerText -> LongTriggerChars
      [] text = RequiredLegend -> RequiredLegendChars
      [] OTHER -> <<>>

\* len(text.split())
WordCount(chars) ==
    Cardinality({i \in DOMAIN chars : chars[i] # " " /\ (i = 1 \/ chars[i - 1] = " ")})

\* re.sub(r'\s+', ' ', text.strip())
CollapseBlanks(chars) ==
    LET stripped == Strip(chars)
        marked == [i \in DOMAIN stripped |->
                      [c |-> stripped[i],
                       keep |-> ~(stripped[i] = " " /\ i > 1 /\ stripped[i - 1] = " ")]]
        kept == SelectSeq(marked, LAMBDA m : m.keep)
    IN [i \in DOMAIN kept |-> kept[i].c]

MaxTriggerLength == 300

\* "if len(trigger_text) > 300: trigger_text = trigger_text[:297] + '...'"
Truncate(chars) ==
    IF Len(chars) > MaxTriggerLength
    THEN SubSeq(chars, 1, MaxTriggerLength - 3) \o <<".", ".", ".">>
    ELSE chars

\* re.search(pattern, text, re.IGNORECASE) for a pattern of literal characters
TriggerPatternHit(pattern, chars) == Contains(ToLower(chars), ToLower(pattern))

\* extract_trigger_info
extract_trigger_info(chars, patterns) ==
    IF Len(chars) = 0 \/ WordCount(chars) < 4 THEN NoneText
    ELSE IF \E p \in DOMAIN patterns : TriggerPatternHit(patterns[p], chars)
    THEN SomeText(Truncate(CollapseBlanks(chars)))
    ELSE NoneText

\* deep_search_triggers: the trigger texts of the node and of its descendants
\* down to max_depth levels, in pre-order
deep_search_triggers(doc, i, patterns, max_depth) ==
    LET infos == [k \in DOMAIN doc |->
                     IF k \in Subtree(doc, i) /\ doc[k].depth - doc[i].depth <= max_depth
                     THEN extract_trigger_info(TextChars(doc[k].text), patterns)
                     ELSE NoneText]
        hits == SelectSeq(infos, LAMBDA info : ~info.none /\ Len(info.value) > 0)
    IN [n \in DOMAIN hits |-> hits[n].value]

\* "if '[ENR]' in form_name"
IsEnrForm(form_name) == Contains(TextChars(form_name), <<"[", "E", "N", "R", "]">>)

\* form_triggers without the special handling of the ENR form
FormTriggersAnyForm(doc, cfg, h, j) ==
    LET patterns == Get(cfg, "trigger_patterns", <<>>)
        own == deep_search_triggers(doc, j, patterns, 7)
    IN IF Len(own) = 0 THEN deep_search_triggers(doc, h, patterns, 6) ELSE own

\* form_triggers: the node's own triggers, else the section's; none for ENR
FormTriggers(doc, cfg, h, j) ==
    LET patterns == Get(cfg, "trigger_patterns", <<>>)
        own == deep_search_triggers(doc, j, patterns, 7)
        form_triggers == IF Len(own) = 0 THEN deep_search_triggers(doc, h, patterns, 6) ELSE own
    IN IF IsEnrForm(doc[j].text) THEN <<>> ELSE form_triggers

\* set(t['text'] for t in form_triggers if extract_trigger_info(t['text'], trigger_patterns))
UniqueTriggers(form_triggers, cfg) ==
    {t \in Range(form_triggers) :
        LET again == extract_trigger_info(t, Get(cfg, "trigger_patterns", <<>>))
        IN ~again.none /\ Len(again.value) > 0}

\* the first [n] of the node's path, 0 for a path without one
SectionNumber(node) == IF "section" \in DOMAIN node THEN node.section ELSE 0

\* "'[' in text and ']' in text and len(text) > 5"
IsCollectedAsForm(text) ==
    LET chars == TextChars(text)
    IN /\ \E k \in DOMAIN chars : chars[k] = "["
       /\ \E k \in DOMAIN chars : chars[k] = "]"
       /\ Len(chars) > 5

\* re.search(required_pattern, text): of the texts in use the legend matches
IsRequiredText(text) == text = RequiredLegend

\* all_form_nodes and all_required_nodes: the nodes in the order collect_nodes
\* meets them
AllFormNodes(doc) == SelectSeq([i \in DOMAIN doc |-> i], LAMBDA i : IsCollectedAsForm(doc[i].text))

AllRequiredNodes(doc) == SelectSeq([i \in DOMAIN doc |-> i], LAMBDA i : IsRequiredText(doc[i].text))

\* min_distance = float('inf'), closest_form = None
NoClosest == [closest_form |-> 0, infinite |-> TRUE, min_distance |-> 0]

AbsDiff(a, b) == IF a >= b THEN a - b ELSE b - a

\* "for form_info in all_form_nodes": the closest form so far, from the k-th on
RECURSIVE ClosestForm(_, _, _, _, _)
ClosestForm(doc, forms, k, req_section_num, best) ==
    IF k > Len(forms) THEN best
    ELSE LET distance == AbsDiff(req_section_num, SectionNumber(doc[forms[k]]))
         IN ClosestForm(doc, forms, k + 1, req_section_num,
                        IF best.infinite \/ distance < best.min_distance
                        THEN [closest_form |-> forms[k], infinite |-> FALSE, min_distance |-> distance]
                        ELSE best)

MaxLegendDistance == 5

\* find_all_required_patterns_globally: the keys of required_mappings
find_all_required_patterns_globally(doc) ==
    LET forms == AllFormNodes(doc)
        required == AllRequiredNodes(doc)
        closest(r) == ClosestForm(doc, forms, 1, SectionNumber(doc[required[r]]), NoClosest)
    IN {doc[closest(r).closest_form].text :
           r \in {q \in DOMAIN required :
                     ~closest(q).infinite /\ closest(q).min_distance <= MaxLegendDistance}}

\* the record of the form found at node j of section h, before the choice
\* of unique_triggers[0]
FormRecord(doc, cfg, h, j) ==
    LET visit_patterns == Get(cfg, "visit_patterns", <<DefaultVisitPattern>>)
        own == deep_search_visits(doc, j, visit_patterns)
        form_visits == IF own = {} THEN deep_search_visits(doc, h, visit_patterns) ELSE own
        label == CurrentLabel(doc, h, j)
        form_triggers == FormTriggers(doc, cfg, h, j)
    IN [label |-> IF label = NoneStr THEN H1Text(doc, h) ELSE label,
        name |-> doc[j].text,
        visits_str |-> JoinVisits(SortVisits(form_visits)),
        form_triggers |-> form_triggers,
        unique_triggers |-> UniqueTriggers(form_triggers, cfg),
        required_flag |-> IF doc[j].text \in find_all_required_patterns_globally(doc)
                          THEN "Yes" ELSE "No"]

FormKey(rec) == <<rec.label, rec.name, rec.visits_str>>

\* the form nodes in the order find_forms_in_node meets them, section by section
RECURSIVE FormsOfSectionFrom(_, _, _, _)
FormsOfSectionFrom(doc, cfg, h, j) ==
    IF j > SubtreeEnd(doc, h) THEN <<>>
    ELSE (IF Reached(doc, cfg, h, j) /\ is_valid_form_name(doc[j].text)
             /\ ~IsIgnoredForm(doc, cfg, j)
          THEN <<FormRecord(doc, cfg, h, j)>> ELSE <<>>)
         \o FormsOfSectionFrom(doc, cfg, h, j + 1)

RECURSIVE FormsOfSections(_, _, _)
FormsOfSections(doc, cfg, hs) ==
    IF Len(hs) = 0 THEN <<>>
    ELSE FormsOfSectionFrom(doc, cfg, Head(hs), Head(hs)) \o FormsOfSections(doc, cfg, Tail(hs))

\* results.append(...) without the seen_forms test
AppendAlways(results, rec) == Append(results, rec)

\* "if form_key not in seen_forms: results.append(...); seen_forms.add(form_key)"
AppendIfUnseen(results, rec) ==
    IF FormKey(rec) \in {FormKey(results[i]) : i \in DOMAIN results}
    THEN results ELSE Append(results, rec)

RECURSIVE CollectForms(_, _)
CollectForms(found, results) ==
    IF Len(found) = 0 THEN results
    ELSE CollectForms(Tail(found), AppendIfUnseen(results, Head(found)))

extract_forms_with_corrections(doc, cfg) ==
    CollectForms(FormsOfSections(doc, cfg, H1Sections(doc)), <<>>)

\* the row appended to results for a found form, with unique_triggers[0] = first
ResultRow(rec, first) ==
    [label |-> rec.label,
     name |-> rec.name,
     visits_str |-> rec.visits_str,
     dynamic_trigger |-> IF rec.unique_triggers # {} THEN "Yes" ELSE "No",
     trigger_details |-> IF rec.unique_triggers # {} THEN first ELSE <<>>,
     required |-> rec.required_flag]

\* list(set(...))[0] for every found form: the iteration order of a set of
\* strings is not fixed, so the first element is any of its elements
FirstOfSetChoices(found) ==
    {first \in [DOMAIN found -> {<<>>} \cup UNION {found[k].unique_triggers : k \in DOMAIN found}] :
        \A k \in DOMAIN found :
            IF found[k].unique_triggers = {} THEN first[k] = <<>>
            ELSE first[k] \in found[k].unique_triggers}

\* ---- inputs ----
EcrfNodeKinds ==
    { <<"H1", "Section A">>, <<"H2", "Demographics">>, <<"P", "[DEMOG]">>,
      <<"P", "[VITALS]">>, <<"P", "V1">>, <<"P", "V2">> }

FormConfigs == { <<>>, [ignore_patterns |-> <<"VITALS">>] }

EcrfDocs(n) ==
    {[i \in 1..n |-> [depth |-> ds[i], name |-> ks[i][1], text |-> ks[i][2]]] :
        ds \in {d \in [1..n -> 1..3] :
                   \A i \in 1..n : IF i = 1 THEN d[i] = 1 ELSE d[i] <= d[i - 1] + 1},
        ks \in [1..n -> EcrfNodeKinds]}

FInit ==
    /\ HIdle /\ MIdle /\ SIdle /\ CIdle /\ DIdle /\ IIdle /\ EIdle /\ RIdle /\ TIdle /\ GIdle /\ XIdle /\ BIdle
    /\ f_pc = "loaded"
    /\ \E n \in 0..MaxFormNodes : ecrf_doc \in EcrfDocs(n)
    /\ form_config \in FormConfigs
    /\ extracted_forms = <<>>
    /\ form_trigger_lists = <<>>
    /\ forms_outcome = "none"
    /\ forms_csv = NoFormsFile

\* a section heading, plain or itself a form, with trigger sentences, forms
\* and visit lists below it
DetailRootKinds == { <<"H1", "Section A">>, <<"H1", "[DEMOG]">> }

DetailNodeKinds ==
    { <<"P", "[DEMOG]">>, <<"P", "[ENR]">>,
      <<"P", "If yes, complete the AE form">>,
      <<"P", "Form is triggered  by consent">>,
      <<"P", "If yes, stop">>,
      <<"P", LongTriggerText>>,
      <<"P", "V10 V2 V1A V1">>, <<"P", "EOT V10000 V2">> }

DetailConfigs ==
    { <<>>,
      [trigger_patterns |-> << <<"i", "f", " ", "y", "e", "s">>, <<"t", "r", "i", "g", "g", "e", "r", "e", "d">> >>,
       visit_patterns |-> <<DefaultVisitPattern, EotPattern>>] }

DetailDocs(n) ==
    {[i \in 1..n |-> [depth |-> ds[i],
                      name |-> IF i = 1 THEN top[1] ELSE ks[i][1],
                      text |-> IF i = 1 THEN top[2] ELSE ks[i][2]]] :
        ds \in {d \in [1..n -> 1..3] :
                   \A i \in 1..n : IF i = 1 THEN d[i] = 1
                                   ELSE d[i] >= 2 /\ d[i] <= d[i - 1] + 1},
        ks \in [2..n -> DetailNodeKinds],
        top \in DetailRootKinds}

FInitDetails ==
    /\ HIdle /\ MIdle /\ SIdle /\ CIdle /\ DIdle /\ IIdle /\ EIdle /\ RIdle /\ TIdle /\ GIdle /\ XIdle /\ BIdle
    /\ f_pc = "loaded"
    /\ \E n \in 1..MaxFormNodes : ecrf_doc \in DetailDocs(n)
    /\ form_config \in DetailConfigs
    /\ extracted_forms = <<>>
    /\ form_trigger_lists = <<>>
    /\ forms_outcome = "none"
    /\ forms_csv = NoFormsFile

\* forms and required legends in sections near to and far from each other
RequiredRootKinds == { <<"H1", "Section A">>, <<"H1", "[DEMOG]">> }

RequiredNodeKinds ==
    { <<"P", "[DEMOG]">>, <<"P", "[VITALS]">>, <<"P", "[ENR]">>, <<"P", RequiredLegend>> }

SectionNumbers == {0, 2, 3, 8}

RequiredDocs(n) ==
    {[i \in 1..n |-> [depth |-> ds[i],
                      name |-> IF i = 1 THEN top[1] ELSE ks[i][1],
                      text |-> IF i = 1 THEN top[2] ELSE ks[i][2],
                      section |-> ss[i]]] :
        ds \in {d \in [1..n -> 1..2] : \A i \in 1..n : d[i] = IF i = 1 THEN 1 ELSE 2},
        ks \in [2..n -> RequiredNodeKinds],
        ss \in [1..n -> SectionNumbers],
        top \in RequiredRootKinds}

FInitRequired ==
    /\ HIdle /\ MIdle /\ SIdle /\ CIdle /\ DIdle /\ IIdle /\ EIdle /\ RIdle /\ TIdle /\ GIdle /\ XIdle /\ BIdle
    /\ f_pc = "loaded"
    /\ \E n \in 1..MaxFormNodes : ecrf_doc \in RequiredDocs(n)
    /\ form_config = <<>>
    /\ extracted_forms = <<>>
    /\ form_trigger_lists = <<>>
    /\ forms_outcome = "none"
    /\ forms_csv = NoFormsFile

\* extract_forms, from the loaded eCRF JSON to its return: the header and one
\* row per form are written and output_csv is returned
ExtractForms ==
    /\ f_pc = "loaded"
    /\ LET found == extract_forms_with_corrections(ecrf_doc, form_config)
       IN \E first \in FirstOfSetChoices(found) :
             LET forms == [k \in DOMAIN found |-> ResultRow(found[k], first[k])]
             IN /\ extracted_forms' = forms
                /\ form_trigger_lists' = [k \in DOMAIN found |-> found[k].form_triggers]
                /\ forms_csv' = forms
                /\ forms_outcome' = "returned"
    /\ f_pc' = "done"
    /\ UNCHANGED <<ecrf_doc, form_config>>
    /\ UNCHANGED <<hvars, mvars, svars, cvars, dvars, ivars, evars, rvars, tvars, gvars, xvars, bvars>>

FNext == ExtractForms

SpecForms == FInit /\ [][FNext]_vars

SpecFormDetails == FInitDetails /\ [][FNext]_vars

SpecFormRequired == FInitRequired /\ [][FNext]_vars

(***************************************************************************)
(* Claims about the Form Extractor                                         *)
(***************************************************************************)
\* C1: the list returned by extract_forms_with_corrections holds no two form
\* records with the same (Form Label, Form Name, Visits string) triple.
C1_NoDuplicateForms ==
    f_pc = "done" =>
        \A i, j \in DOMAIN extracted_forms :
            i # j => FormKey(extracted_forms[i]) # FormKey(extracted_forms[j])

\* C1 witness: the walk met the same (label, name, visits) triple more than
\* once and the returned list holds it.
C1_Witness ==
    /\ f_pc = "done"
    /\ Len(extracted_forms) >= 1
    /\ Len(FormsOfSections(ecrf_doc, form_config, H1Sections(ecrf_doc))) > Len(extracted_forms)

\* C6: when zero forms are extracted from the eCRF document, extract_forms
\* reports an explicit failure to its caller instead of writing and returning
\* a valid-looking empty forms table.
C6_ZeroFormsIsFailure ==
    (f_pc = "done" /\ Len(extracted_forms) = 0) =>
        (forms_outcome = "raised" /\ forms_csv = NoFormsFile)

(***************************************************************************)
(* Item extraction stage:                                                  *)
(*   src/Full_pipeline (Copy)/backend/Final_study_specific_form.py         *)
(* Both entry points assign the module global CONFIG from their own        *)
(* config_path; the rule functions read the global when they are called.   *)
(* Runs are request threads of one server process, so their steps          *)
(* interleave.                                                             *)
(***************************************************************************)
MaxRuleCalls == 2

\* the rules files on disk; any other path cannot be opened
ConfigFileContent ==
    [a |-> [instruction_keywords |-> <<"verify">>,
            metadata_keywords |-> <<"Sponsor">>,
            company_patterns |-> <<"Acme">>,
            date_time_pattern |-> "DOB"],
     b |-> [instruction_keywords |-> <<"please">>]]

ConfigPaths == {"a", "b", "missing"}

\* load_config: the parsed JSON, {} on any exception
load_config(config_path) ==
    IF config_path \in DOMAIN ConfigFileContent THEN ConfigFileContent[config_path] ELSE <<>>

DefaultInstructionKeywords ==
    <<"please", "note", "ensure", "click", "enter", "complete", "select", "indicate",
      "check", "provide", "collect", "integration", "Study ID">>

DefaultMetadataKeywords ==
    <<"Novo Nordisk", "Trial ID:", "Sample eCRF", "Mock-up", "requirement",
      "Version: 1.0", "Page: 1 of 2">>

DefaultCompanyPatterns == <<"Novo Nordisk A/S", "Clinical Trial", "Protocol">>

DefaultDateTimePattern == "Req(1900-2100)"

\* a text is held as its words (lower case), its count of the punctuation
\* characters :-().?!; and whether it ends in "?" or starts like "1. x"
InstructionTexts ==
    { [words |-> <<>>, punct |-> 0, question |-> FALSE, numbered |-> FALSE],
      [words |-> <<"please", "sign">>, punct |-> 0, question |-> FALSE, numbered |-> FALSE],
      [words |-> <<"verify", "dose">>, punct |-> 0, question |-> FALSE, numbered |-> FALSE],
      [words |-> <<"verify", "dose">>, punct |-> 1, question |-> TRUE, numbered |-> FALSE],
      [words |-> <<"weight">>, punct |-> 1, question |-> FALSE, numbered |-> FALSE] }

\* keywords.search(text) for one keyword, re.IGNORECASE: the keyword in lower
\* case is one of the words ("Study ID" spans two words, no text in use has it)
InstructionKeywordHit(kw, text) ==
    \E w \in DOMAIN text.words :
        text.words[w] = (IF kw = "Study ID" THEN "study id" ELSE kw)

\* is_instruction with the keyword list read from the global
is_instruction(text, config) ==
    LET kw_list == Get(config, "instruction_keywords", DefaultInstructionKeywords)
        word_count == Len(text.words)
    IN IF word_count = 0 THEN FALSE
       ELSE IF text.question THEN FALSE
       ELSE IF \E k \in DOMAIN kw_list : InstructionKeywordHit(kw_list[k], text) THEN TRUE
       ELSE IF word_count < 5 /\ text.punct >= 1 THEN TRUE
       ELSE IF word_count >= 5 /\ text.punct * 10 > word_count THEN TRUE
       ELSE text.numbered

\* the text of a table is held as the set of phrases in it; a pattern is named
\* by the phrase it matches ("Novo Nordisk A/S" also holds "Novo Nordisk")
PatternHit(pattern, table_text) ==
    \/ pattern \in table_text
    \/ pattern = "Novo Nordisk" /\ "Novo Nordisk A/S" \in table_text

MetadataTables ==
    { {}, {"Novo Nordisk A/S", "Trial ID:"}, {"Novo Nordisk", "Trial ID:", "Version: 1.0"},
      {"Sponsor", "Acme"}, {"Sponsor", "Trial ID:", "Protocol"} }

\* is_metadata_table with both pattern lists read from the global
is_metadata_table(table_text, config) ==
    LET metadata_keywords == Get(config, "metadata_keywords", DefaultMetadataKeywords)
        company_patterns == Get(config, "company_patterns", DefaultCompanyPatterns)
        matches == Cardinality({k \in DOMAIN metadata_keywords : PatternHit(metadata_keywords[k], table_text)})
    IN IF matches >= 3 THEN TRUE
       ELSE \E c \in DOMAIN company_patterns :
                PatternHit(company_patterns[c], table_text) /\ matches >= 2

\* a node of the tree is a record [name, text, children]; the texts in use
\* are stripped as the JSON holds them
Node(name, text, kids) == [name |-> name, text |-> text, children |-> kids]

Leaf(name, text) == Node(name, text, <<>>)

\* the option cell of an item that has none (Option_TD_Node is None)
NoOptionNode == Node("None", "", <<>>)

\* the characters of the texts in use
ItemTextChars(text) ==
    CASE text = "" -> <<>>
      [] text = "Age" -> <<"A", "g", "e">>
      [] text = "Sex" -> <<"S", "e", "x">>
      [] text = "Yes" -> <<"Y", "e", "s">>
      [] text = "C, CO" -> <<"C", ",", " ", "C", "O">>
      [] text = "*" -> <<"*">>
      [] text = "Please sign" -> <<"P", "l", "e", "a", "s", "e", " ", "s", "i", "g", "n">>
      [] text = "Vital Signs" -> <<"V", "i", "t", "a", "l", " ", "S", "i", "g", "n", "s">>
      [] text = "NaN" -> <<"N", "a", "N">>
      [] text = "Novo Nordisk A/S" -> <<"N", "o", "v", "o", " ", "N", "o", "r", "d", "i", "s", "k", " ", "A", "/", "S">>
      [] text = "Trial ID:" -> <<"T", "r", "i", "a", "l", " ", "I", "D", ":">>
      [] text = "Version: 1.0" -> <<"V", "e", "r", "s", "i", "o", "n", ":", " ", "1", ".", "0">>
      [] text = "No" -> <<"N", "o">>
      [] text = "Sponsor" -> <<"S", "p", "o", "n", "s", "o", "r">>
      [] text = "DOB" -> <<"D", "O", "B">>
      [] text = "|N3| Years" -> <<"|", "N", "3", "|", " ", "Y", "e", "a", "r", "s">>
      [] text = "Req/Req/Req(1900-2100)" ->
            <<"R", "e", "q", "/", "R", "e", "q", "/", "R", "e", "q", "(",
              "1", "9", "0", "0", "-", "2", "1", "0", "0", ")">>
      [] text = "req (1900//2100)" ->
            <<"r", "e", "q", " ", "(", "1", "9", "0", "0", "/", "/", "2", "1", "0", "0", ")">>

\* get_text: the node's own text, else the first text found below it
RECURSIVE get_text(_), FirstText(_)
get_text(node) == IF node.text # "" THEN node.text ELSE FirstText(node.children)

FirstText(kids) ==
    IF Len(kids) = 0 THEN ""
    ELSE IF get_text(Head(kids)) # "" THEN get_text(Head(kids))
    ELSE FirstText(Tail(kids))

\* re.search('^' + prefix, name)
NameStartsWith(name, prefix) ==
    CASE prefix = "P" -> name \in {"P", "ParagraphSpan"}
      [] OTHER -> name = prefix

\* find_nodes_by_name_pattern(node, '^' + prefix): the matching nodes in pre-order
RECURSIVE find_nodes_by_name_pattern(_, _), FindInAll(_, _)
find_nodes_by_name_pattern(node, prefix) ==
    (IF NameStartsWith(node.name, prefix) THEN <<node>> ELSE <<>>)
    \o FindInAll(node.children, prefix)

FindInAll(kids, prefix) ==
    IF Len(kids) = 0 THEN <<>>
    ELSE find_nodes_by_name_pattern(Head(kids), prefix) \o FindInAll(Tail(kids), prefix)

\* one element stands for the bullet mark as the source file writes it (the
\* three characters U+201A U+00C4 U+00A2); no text in use holds any of them
Bullet == "(bullet)"

NewLine == "\n"

\* the texts that are skipped as option values: "", the check-box glyphs and
\* the inverted exclamation mark; of these the texts in use hold only ""
SkippedOptionTexts == {""}

\* [x for x in values if not (x in seen or seen.add(x))]
RECURSIVE UniqueValues(_, _)
UniqueValues(values, seen) ==
    IF Len(values) = 0 THEN <<>>
    ELSE IF Head(values) \in seen THEN UniqueValues(Tail(values), seen)
    ELSE <<Head(values)>> \o UniqueValues(Tail(values), seen \cup {Head(values)})

\* "\n".join(f"(bullet) {val}" for val in unique_values), as characters
RECURSIVE BulletJoin(_)
BulletJoin(unique_values) ==
    IF Len(unique_values) = 0 THEN <<>>
    ELSE <<Bullet, " ">> \o ItemTextChars(Head(unique_values))
         \o (IF Len(unique_values) = 1 THEN <<>>
             ELSE <<NewLine>> \o BulletJoin(Tail(unique_values)))

TextsOf(found) == [k \in DOMAIN found |-> get_text(found[k])]

\* get_all_lbody_values: the values of the LBody nodes, else of the Sub
\* nodes, else of the P nodes (the texts in use start with no glyph or blank,
\* so the clean-up of a Sub text leaves it as it is)
get_all_lbody_values(option_td_node) ==
    IF option_td_node.name = "None" THEN <<>>
    ELSE LET lbody_nodes == find_nodes_by_name_pattern(option_td_node, "LBody")
             sub_values == SelectSeq(TextsOf(find_nodes_by_name_pattern(option_td_node, "Sub")),
                                     LAMBDA t : t \notin SkippedOptionTexts)
             p_values == SelectSeq(TextsOf(find_nodes_by_name_pattern(option_td_node, "P")),
                                   LAMBDA t : t \notin SkippedOptionTexts)
         IN IF Len(lbody_nodes) > 0
            THEN BulletJoin(UniqueValues(SelectSeq(TextsOf(lbody_nodes), LAMBDA t : t # ""), {}))
            ELSE IF Len(sub_values) > 0 THEN BulletJoin(UniqueValues(sub_values, {}))
            ELSE BulletJoin(UniqueValues(p_values, {}))

\* the characters of the class as the source file writes it: hyphen, slash
\* and the characters of its two dash marks
DateSeparators == {"-", "/", "(U+201A)", "(U+00C4)", "(U+00EC)", "(U+00EE)"}

AllDigits(chars, from, to) == \A k \in from..to : chars[k] \in Digits

\* r'\(\d{4}[-(dash marks)/]{1,2}\d{4}\)' matched at position j
DateRangeAt(chars, j) ==
    \E seps \in 1..2 :
        /\ j + 9 + seps <= Len(chars)
        /\ chars[j] = "("
        /\ AllDigits(chars, j + 1, j + 4)
        /\ \A k \in (j + 5)..(j + 4 + seps) : chars[k] \in DateSeparators
        /\ AllDigits(chars, j + 5 + seps, j + 8 + seps)
        /\ chars[j + 9 + seps] = ")"

\* re.search(r'Req.*?\(\d{4}[-(dash marks)/]{1,2}\d{4}\)', content, re.IGNORECASE):
\* "req" in any case, then characters of one line, then the range
DefaultDateTimeSearch(chars) ==
    \E i \in 1..Len(chars) : \E j \in (i + 3)..Len(chars) :
        /\ ToLower(SubSeq(chars, i, i + 2)) = <<"r", "e", "q">>
        /\ \A k \in (i + 3)..(j - 1) : chars[k] # NewLine
        /\ DateRangeAt(chars, j)

\* re.search(date_time_pattern, content, re.IGNORECASE); a configured pattern
\* is a word of letters
DateTimeSearch(date_time_pattern, chars) ==
    IF date_time_pattern = DefaultDateTimePattern THEN DefaultDateTimeSearch(chars)
    ELSE Contains(ToLower(chars), ToLower(ItemTextChars(date_time_pattern)))

\* codelist_content.strip()
RECURSIVE StripContent(_)
StripContent(chars) ==
    IF Len(chars) = 0 THEN chars
    ELSE IF Head(chars) \in {" ", NewLine} THEN StripContent(Tail(chars))
    ELSE IF Last(chars) \in {" ", NewLine} THEN StripContent(Front(chars))
    ELSE chars

CountOf(chars, c) == Cardinality({k \in DOMAIN chars : chars[k] = c})

\* the option cells in use
OptionNodes ==
    { NoOptionNode,
      Node("TD", "", <<Leaf("P", "Yes")>>),
      Node("TD", "", <<Leaf("P", "DOB")>>),
      Node("TD", "", <<Leaf("P", "Req/Req/Req(1900-2100)")>>),
      Node("TD", "", <<Leaf("P", "|N3| Years")>>),
      Node("TD", "", <<Leaf("ExtraCharSpan", "Yes")>>) }

\* the nested-structure test left out: pipes with at most one bullet give Label
determine_data_type_no_structure(option_td_node, codelist_content, config) ==
    LET date_time_pattern == Get(config, "date_time_pattern", DefaultDateTimePattern)
        content == StripContent(codelist_content)
    IN IF option_td_node.name = "None" THEN "Text"
       ELSE IF DateTimeSearch(date_time_pattern, content) THEN "Date/Time"
       ELSE IF CountOf(content, "|") > 0 /\ CountOf(content, Bullet) <= 1 THEN "Label"
       ELSE "Text"

\* determine_data_type with the date/time pattern read from the global
determine_data_type(option_td_node, codelist_content, config) ==
    LET date_time_pattern == Get(config, "date_time_pattern", DefaultDateTimePattern)
        content == StripContent(codelist_content)
        lbody_nodes == find_nodes_by_name_pattern(option_td_node, "LBody")
    IN IF option_td_node.name = "None" THEN "Text"
       ELSE IF DateTimeSearch(date_time_pattern, content) THEN "Date/Time"
       ELSE IF \E k \in DOMAIN lbody_nodes :
                  Len(find_nodes_by_name_pattern(lbody_nodes[k], "ExtraCharSpan")) > 0
       THEN "Codelist"
       ELSE IF Len(find_nodes_by_name_pattern(option_td_node, "ExtraCharSpan")) > 0 THEN "Codelist"
       ELSE IF CountOf(content, "|") > 0 /\ CountOf(content, Bullet) <= 1 THEN "Label"
       ELSE "Text"

CInit ==
    /\ HIdle /\ MIdle /\ SIdle /\ FIdle /\ DIdle /\ IIdle /\ EIdle /\ RIdle /\ TIdle /\ GIdle /\ XIdle /\ BIdle
    /\ CONFIG = UnsetConfig
    /\ run_pc = [r \in Runs |-> "start"]
    /\ run_config_path \in [Runs -> ConfigPaths]
    /\ run_calls = [r \in Runs |-> 0]
    /\ last_decision = [r \in Runs |-> NoDecision]

\* the first statements of process_clinical_forms and of
\* prepare_study_specific_forms_rows: global CONFIG; CONFIG = load_config(config_path)
LoadRunConfig(r) ==
    /\ run_pc[r] = "start"
    /\ CONFIG' = load_config(run_config_path[r])
    /\ run_pc' = [run_pc EXCEPT ![r] = "running"]
    /\ UNCHANGED <<run_config_path, run_calls, last_decision>>
    /\ UNCHANGED <<hvars, mvars, svars, fvars, dvars, ivars, evars, rvars, tvars, gvars, xvars, bvars>>

CanCall(r) == run_pc[r] = "running" /\ run_calls[r] < MaxRuleCalls

Decide(r, decision) ==
    /\ last_decision' = [last_decision EXCEPT ![r] = decision]
    /\ run_calls' = [run_calls EXCEPT ![r] = @ + 1]
    /\ UNCHANGED <<CONFIG, run_pc, run_config_path>>
    /\ UNCHANGED <<hvars, mvars, svars, fvars, dvars, ivars, evars, rvars, tvars, gvars, xvars, bvars>>

CallIsInstruction(r, text) ==
    /\ CanCall(r)
    /\ Decide(r, [rule |-> "is_instruction", input |-> text,
                  result |-> is_instruction(text, CONFIG)])

CallIsMetadataTable(r, table_text) ==
    /\ CanCall(r)
    /\ Decide(r, [rule |-> "is_metadata_table", input |-> table_text,
                  result |-> is_metadata_table(table_text, CONFIG)])

\* codelist_content = get_all_lbody_values(option_node), then the rule
CallDetermineDataType(r, option_td_node) ==
    /\ CanCall(r)
    /\ LET codelist_content == get_all_lbody_values(option_td_node)
       IN Decide(r, [rule |-> "determine_data_type",
                     input |-> <<option_td_node, codelist_content>>,
                     result |-> determine_data_type(option_td_node, codelist_content, CONFIG)])

\* the entry point returns
FinishRun(r) ==
    /\ run_pc[r] = "running"
    /\ run_pc' = [run_pc EXCEPT ![r] = "done"]
    /\ UNCHANGED <<CONFIG, run_config_path, run_calls, last_decision>>
    /\ UNCHANGED <<hvars, mvars, svars, fvars, dvars, ivars, evars, rvars, tvars, gvars, xvars, bvars>>

CNext ==
    \E r \in Runs :
        \/ LoadRunConfig(r)
        \/ \E text \in InstructionTexts : CallIsInstruction(r, text)
        \/ \E table_text \in MetadataTables : CallIsMetadataTable(r, table_text)
        \/ \E n \in OptionNodes : CallDetermineDataType(r, n)
        \/ FinishRun(r)

SpecConfig == CInit /\ [][CNext]_vars

(***************************************************************************)
(* Claims about the item extraction stage                                  *)
(***************************************************************************)
\* the result the rule call d gives under the configuration config
ResultUnder(d, config) ==
    CASE d.rule = "is_instruction" -> is_instruction(d.input, config)
      [] d.rule = "is_metadata_table" -> is_metadata_table(d.input, config)
      [] d.rule = "determine_data_type" -> determine_data_type(d.input[1], d.input[2], config)

\* C8: when two runs of the item-extraction stage with different configuration
\* files are interleaved in one process, every rule decision of a run
\* (is_instruction, is_metadata_table, determine_data_type) is the one its own
\* configuration gives, never the other run's.
C8_RunUsesOwnConfig ==
    \A r \in Runs :
        last_decision[r].rule # "none" =>
            last_decision[r].result = ResultUnder(last_decision[r], load_config(run_config_path[r]))


(***************************************************************************)
(* Source classification:                                                  *)
(*   src/Full_pipeline (Copy)/PTD_Gen/modules/form_extractor.py            *)
(*   determine_form_source                                                 *)
(* Strings are sequences of one-character strings, so that the regular     *)
(* expressions of the function act on what they would act on.              *)
(***************************************************************************)
\* the first position at or after i that holds no blank
RECURSIVE SkipBlanks(_, _)
SkipBlanks(str, i) ==
    IF i <= Len(str) /\ str[i] = " " THEN SkipBlanks(str, i + 1) ELSE i

\* re.sub(r'[\[\]()]', '', form_name)
DropBrackets(str) == SelectSeq(str, LAMBDA c : c \notin {"[", "]", "(", ")"})

\* the three characters the source file holds where a dash once stood
BrokenDash == <<"U+00E2", "U+20AC", "U+201C">>

\* re.sub(r'\s*<BrokenDash>.*', '', clean_name): cut at the leftmost match
CutAtBrokenDash(str) ==
    LET starts == {i \in 1..Len(str) : StartsWith(From(str, SkipBlanks(str, i)), BrokenDash)}
    IN IF starts = {} THEN str
       ELSE SubSeq(str, 1, (CHOOSE i \in starts : \A j \in starts : i <= j) - 1)

\* r'\s*-\s*(Non-)?[Rr]epeating' matches at position i
RepeatingAt(str, i) ==
    LET j == SkipBlanks(str, i)
    IN /\ j <= Len(str)
       /\ str[j] = "-"
       /\ LET rest == From(str, SkipBlanks(str, j + 1))
              word == IF StartsWith(rest, <<"N", "o", "n", "-">>) THEN From(rest, 5) ELSE rest
          IN \/ StartsWith(word, <<"R", "e", "p", "e", "a", "t", "i", "n", "g">>)
             \/ StartsWith(word, <<"r", "e", "p", "e", "a", "t", "i", "n", "g">>)

\* re.sub(r'\s*-\s*(Non-)?[Rr]epeating.*', '', clean_name)
CutAtRepeating(str) ==
    LET starts == {i \in 1..Len(str) : RepeatingAt(str, i)}
    IN IF starts = {} THEN str
       ELSE SubSeq(str, 1, (CHOOSE i \in starts : \A j \in starts : i <= j) - 1)

CleanName(form_name) == CutAtRepeating(CutAtBrokenDash(Strip(DropBrackets(form_name))))

\* (?:\s|$) at the start of rest
AtBlankOrEnd(rest) == Len(rest) = 0 \/ rest[1] = " "

\* (?:_\d+|_[A-Z]+|\d+)?(?:\s|$) at the start of rest
SuffixThenEnd(rest) ==
    \/ AtBlankOrEnd(rest)
    \/ \E n \in 1..Len(rest) :
          /\ AtBlankOrEnd(From(rest, n + 1))
          /\ \/ \A k \in 1..n : rest[k] \in Digits
             \/ /\ n >= 2 /\ rest[1] = "_"
                /\ \/ \A k \in 2..n : rest[k] \in Digits
                   \/ \A k \in 2..n : IsUpperLetter(rest[k])

\* the lengths group 1 of r'([A-Z][A-Z_]*?)(?:_\d+|_[A-Z]+|\d+)?(?:\s|$)' can take
BaseLengths(upper) ==
    {n \in 1..Len(upper) :
        /\ IsUpperLetter(upper[1])
        /\ \A k \in 2..n : IsUpperLetter(upper[k]) \/ upper[k] = "_"
        /\ SuffixThenEnd(From(upper, n + 1))}

\* base_form_name: group 1 of the lazy match, the whole upper-case name without one
BaseFormName(clean_name) ==
    LET upper == ToUpper(clean_name)
        lens == BaseLengths(upper)
    IN IF lens = {} THEN upper
       ELSE SubSeq(upper, 1, CHOOSE n \in lens : \A m \in lens : n <= m)

\* re.match(r'^[A-Z][A-Z0-9_]*$', clean_name.upper())
IsCodeShaped(upper) ==
    /\ Len(upper) >= 1
    /\ IsUpperLetter(upper[1])
    /\ \A k \in 2..Len(upper) : IsUpperLetter(upper[k]) \/ upper[k] \in Digits \/ upper[k] = "_"

standard_domains ==
    { <<"D", "E", "M", "O", "G", "R", "A", "P", "H", "Y">>,
      <<"D", "E", "M", "O", "G", "R", "A", "P", "H", "I", "C">>,
      <<"D", "E", "M", "O", "G", "R", "A", "P", "H", "I", "C", "S">>,
      <<"D", "E", "M", "O">>,
      <<"I", "N", "C", "L", "U", "S", "I", "O", "N">>,
      <<"E", "X", "C", "L", "U", "S", "I", "O", "N">>,
      <<"I", "N", "C", "L", "U", "S", "I", "O", "N", "E", "X", "C", "L", "U", "S", "I", "O", "N">>,
      <<"E", "L", "I", "G", "I", "B", "I", "L", "I", "T", "Y">>,
      <<"I", "N", "F", "O", "R", "M", "E", "D", "_", "C", "O", "N", "S", "E", "N", "T">>,
      <<"C", "O", "N", "S", "E", "N", "T">>,
      <<"I", "C", "F">>,
      <<"M", "E", "D", "I", "C", "A", "L", "_", "H", "I", "S", "T">>,
      <<"M", "E", "D", "I", "C", "A", "L", "_", "H", "I", "S", "T", "O", "R", "Y">>,
      <<"M", "E", "D", "H", "I", "S", "T">>,
      <<"P", "H", "Y", "S", "I", "C", "A", "L", "_", "E", "X", "A", "M">>,
      <<"P", "H", "Y", "S", "I", "C", "A", "L", "E", "X", "A", "M">>,
      <<"P", "E">>,
      <<"P", "H", "Y", "S", "E", "X", "A", "M">>,
      <<"V", "I", "T", "A", "L", "_", "S", "I", "G", "N", "S">>,
      <<"V", "I", "T", "A", "L", "S", "I", "G", "N", "S">>,
      <<"V", "I", "T", "A", "L", "S">>,
      <<"V", "S">>,
      <<"L", "A", "B">>,
      <<"L", "A", "B", "O", "R", "A", "T", "O", "R", "Y">>,
      <<"L", "A", "B", "S">>,
      <<"L", "A", "B", "V", "A", "L", "U", "E">>,
      <<"L", "A", "B", "R", "E", "S", "U", "L", "T">>,
      <<"E", "C", "G">>,
      <<"E", "L", "E", "C", "T", "R", "O", "C", "A", "R", "D", "I", "O", "G", "R", "A", "M">>,
      <<"E", "K", "G">>,
      <<"A", "E">>,
      <<"A", "D", "V", "E", "R", "S", "E", "_", "E", "V", "E", "N", "T">>,
      <<"A", "D", "V", "E", "R", "S", "E", "E", "V", "E", "N", "T">>,
      <<"S", "A", "E">>,
      <<"S", "E", "R", "I", "O", "U", "S", "_", "A", "E">>,
      <<"C", "O", "N", "M", "E", "D">>,
      <<"C", "O", "N", "C", "O", "M", "I", "T", "A", "N", "T", "_", "M", "E", "D", "I", "C", "A", "T", "I", "O", "N">>,
      <<"C", "O", "N", "C", "O", "M", "I", "T", "A", "N", "T", "M", "E", "D", "I", "C", "A", "T", "I", "O", "N">>,
      <<"R", "A", "N", "D", "O", "M", "I", "Z", "A", "T", "I", "O", "N">>,
      <<"R", "A", "N", "D", "O", "M", "I", "S", "A", "T", "I", "O", "N">>,
      <<"R", "T", "S", "M">>,
      <<"I", "V", "R", "S">>,
      <<"I", "W", "R", "S">> }

MaxBaseLen == 15

\* the four texts joined by blanks, without .lower()
AllTextAsWritten(form_name, form_text, context_text, document_context) ==
    form_name \o <<" ">> \o form_text \o <<" ">> \o context_text \o <<" ">> \o document_context

\* all_text: f"{form_name} {form_text} {context_text} {document_context}".lower()
AllText(form_name, form_text, context_text, document_context) ==
    ToLower(form_name \o <<" ">> \o form_text \o <<" ">> \o context_text
            \o <<" ">> \o document_context)

\* some pattern of the list is found in all_text
AnyPatternHit(patterns, all_text) ==
    \E p \in DOMAIN patterns : Contains(all_text, patterns[p])

determine_form_source(form_name, form_text, context_text, document_context, config) ==
    LET clean_name == CleanName(form_name)
        base_form_name == BaseFormName(clean_name)
        all_text == AllText(form_name, form_text, context_text, document_context)
        classification == Get(config, "source_classification", <<>>)
    IN IF AnyPatternHit(Get(classification, "reference_study_indicators", <<>>), all_text)
       THEN "Ref. Study"
       ELSE IF AnyPatternHit(Get(classification, "new_indicators", <<>>), all_text)
       THEN "New"
       ELSE IF AnyPatternHit(Get(classification, "library_indicators", <<>>), all_text)
       THEN "Library"
       ELSE IF base_form_name \in standard_domains THEN "Library"
       ELSE IF IsCodeShaped(ToUpper(clean_name))
       THEN (IF Len(base_form_name) <= MaxBaseLen THEN "Library" ELSE "New")
       ELSE "Library"

\* ---- inputs ----
DemographyFormName == <<"[", "D", "E", "M", "O", "G", "R", "A", "P", "H", "Y", "]", " ", "D", "e", "m", "o", "g", "r", "a", "p", "h", "i", "c", "s", " ", "F", "o", "r", "m">>

SourceFormNames ==
    { DemographyFormName,
      <<"[", "V", "I", "T", "A", "L", "_", "S", "I", "G", "N", "S", "]">>,
      <<"[", "A", "B", "C", "D", "E", "F", "G", "H", "I", "J", "K", "L", "M", "N", "O", "P", "Q", "]">>,
      <<"V", "i", "s", "i", "t", " ", "L", "o", "g", " ", "-", " ", "R", "e", "p", "e", "a", "t", "i", "n", "g">> }

SourceContexts ==
    { <<>>,
      <<"T", "h", "i", "s", " ", "i", "s", " ", "a", " ", "N", "e", "w", " ", "F", "o", "r", "m">>,
      <<"s", "e", "e", " ", "S", "t", "u", "d", "y", " ", "1", "2", "3", "4">> }

SourceConfigs ==
    { <<>>,
      [source_classification |-> [new_indicators |-> << <<"n", "e", "w", " ", "f", "o", "r", "m">> >>]],
      [source_classification |-> [reference_study_indicators |-> << <<"s", "t", "u", "d", "y", " ", "1", "2", "3", "4">> >>,
                                  library_indicators |-> << <<"d", "e", "m", "o", "g", "r", "a", "p", "h">> >>]],
      [source_classification |-> [new_indicators |-> << <<"N", "e", "w", " ", "F", "o", "r", "m">> >>]] }

DInit ==
    /\ HIdle /\ MIdle /\ SIdle /\ FIdle /\ CIdle /\ IIdle /\ EIdle /\ RIdle /\ TIdle /\ GIdle /\ XIdle /\ BIdle
    /\ d_pc = "called"
    /\ src_args \in [form_name : SourceFormNames, form_text : {<<>>} \cup SourceFormNames,
                     context_text : SourceContexts, document_context : SourceContexts,
                     config : SourceConfigs]
    /\ src_result = ""

DetermineFormSource ==
    /\ d_pc = "called"
    /\ src_result' = determine_form_source(src_args.form_name, src_args.form_text,
                                           src_args.context_text, src_args.document_context,
                                           src_args.config)
    /\ d_pc' = "returned"
    /\ UNCHANGED src_args
    /\ UNCHANGED <<hvars, mvars, svars, fvars, cvars, ivars, evars, rvars, tvars, gvars, xvars, bvars>>

DNext == DetermineFormSource

SpecSource == DInit /\ [][DNext]_vars

(***************************************************************************)
(* Claims about source classification                                      *)
(***************************************************************************)
\* the lower-case text the call looks for indicators in
CombinedLowerText(args) ==
    ToLower(args.form_name \o <<" ">> \o args.form_text \o <<" ">> \o args.context_text
            \o <<" ">> \o args.document_context)

\* the indicator list of the call's configuration under the given key
IndicatorsOf(args, key) == Get(Get(args.config, "source_classification", <<>>), key, <<>>)

IndicatorFound(args, key) ==
    \E p \in DOMAIN IndicatorsOf(args, key) :
        \E i \in 1..(Len(CombinedLowerText(args)) + 1) :
            StartsWith(From(CombinedLowerText(args), i), IndicatorsOf(args, key)[p])

\* no configured reference-study or new indicator is found in the combined text
NoOverridingIndicator(args) ==
    /\ ~IndicatorFound(args, "reference_study_indicators")
    /\ ~IndicatorFound(args, "new_indicators")

\* C11 as stated: for the form '[DEMOGRAPHY] Demographics Form'
\* determine_form_source returns Library for every context text and every
\* document context text.
C11_DemographyAlwaysLibrary ==
    (d_pc = "returned" /\ src_args.form_name = DemographyFormName) => src_result = "Library"

\* C11 amended: for the form '[DEMOGRAPHY] Demographics Form'
\* determine_form_source returns Library for every context text and document
\* context text in which no configured reference-study or new indicator is
\* found; with the default configuration, which has no indicators, that is
\* every context.
C11_DemographyLibraryUnlessIndicator ==
    (/\ d_pc = "returned"
     /\ src_args.form_name = DemographyFormName
     /\ NoOverridingIndicator(src_args)) => src_result = "Library"

\* C11 witness: the Demography form classified with a non-empty context that
\* holds no overriding indicator, through the standard-domain table.
C11_Witness ==
    /\ d_pc = "returned"
    /\ src_args.form_name = DemographyFormName
    /\ src_args.context_text # <<>>
    /\ src_args.config # <<>>
    /\ NoOverridingIndicator(src_args)
    /\ ~IndicatorFound(src_args, "library_indicators")
    /\ src_result = "Library"


(***************************************************************************)
(* Item Extractor:                                                         *)
(*   src/Full_pipeline (Copy)/backend/Final_study_specific_form.py         *)
(* A node is a record [name, text, children]; texts come from a small      *)
(* vocabulary, already stripped as the JSON holds them.                    *)
(***************************************************************************)
MaxItemRows == 3

\* the text as is_instruction looks at it: its words in lower case, its count
\* of the characters :-().?!; , a final "?" and a leading "1. x"
InstructionView(text) ==
    CASE text = "" -> [words |-> <<>>, punct |-> 0, question |-> FALSE, numbered |-> FALSE]
      [] text = "Please sign" -> [words |-> <<"please", "sign">>, punct |-> 0, question |-> FALSE, numbered |-> FALSE]
      [] text = "Vital Signs" -> [words |-> <<"vital", "signs">>, punct |-> 0, question |-> FALSE, numbered |-> FALSE]
      [] text = "C, CO" -> [words |-> <<"c,", "co">>, punct |-> 0, question |-> FALSE, numbered |-> FALSE]
      [] text = "Novo Nordisk A/S" -> [words |-> <<"novo", "nordisk", "a/s">>, punct |-> 0, question |-> FALSE, numbered |-> FALSE]
      [] text = "Trial ID:" -> [words |-> <<"trial", "id:">>, punct |-> 1, question |-> FALSE, numbered |-> FALSE]
      [] text = "Version: 1.0" -> [words |-> <<"version:", "1.0">>, punct |-> 2, question |-> FALSE, numbered |-> FALSE]
      [] text = "Age" -> [words |-> <<"age">>, punct |-> 0, question |-> FALSE, numbered |-> FALSE]
      [] text = "Sex" -> [words |-> <<"sex">>, punct |-> 0, question |-> FALSE, numbered |-> FALSE]
      [] text = "Yes" -> [words |-> <<"yes">>, punct |-> 0, question |-> FALSE, numbered |-> FALSE]
      [] text = "NaN" -> [words |-> <<"nan">>, punct |-> 0, question |-> FALSE, numbered |-> FALSE]
      [] text = "*" -> [words |-> <<"*">>, punct |-> 0, question |-> FALSE, numbered |-> FALSE]
      [] text = "Sponsor" -> [words |-> <<"sponsor">>, punct |-> 0, question |-> FALSE, numbered |-> FALSE]

\* is_valid_form_label of this file: 3 to 100 characters and no invalid pattern
ItemLabelValid(text) == Len(ItemTextChars(text)) >= 3

\* all the text of a table as the set of its phrases (get_all_table_text)
RECURSIVE TextsBelow(_)
TextsBelow(node) ==
    (IF node.text = "" THEN {} ELSE {node.text})
    \cup UNION {TextsBelow(node.children[k]) : k \in DOMAIN node.children}

\* the text of a table as is_metadata_table searches it: the phrases it
\* holds, and "^Sponsor" when the text begins with Sponsor
TableText(node) ==
    TextsBelow(node) \cup (IF get_text(node) = "Sponsor" THEN {"^Sponsor"} ELSE {})

RECURSIVE check_p_extracharspan_extracharspan_pattern(_)
check_p_extracharspan_extracharspan_pattern(node) ==
    \/ /\ node.name = "P"
       /\ \E c \in DOMAIN node.children :
             /\ node.children[c].name = "ExtraCharSpan"
             /\ \E g \in DOMAIN node.children[c].children :
                   node.children[c].children[g].name = "ExtraCharSpan"
    \/ \E c \in DOMAIN node.children :
          check_p_extracharspan_extracharspan_pattern(node.children[c])

RECURSIVE check_p_sub_pattern(_)
check_p_sub_pattern(node) ==
    \/ /\ node.name = "P"
       /\ \E c \in DOMAIN node.children : node.children[c].name = "Sub"
    \/ \E c \in DOMAIN node.children : check_p_sub_pattern(node.children[c])

\* re.match(r'^[A-Z,\s]+$', node_text)
OnlyCapsCommaSpace(chars) ==
    Len(chars) >= 1 /\ \A k \in DOMAIN chars : IsUpperLetter(chars[k]) \/ chars[k] \in {",", " "}

\* r'^[A-Z]{1,2}(\s*,\s*[A-Z]{1,2})+$': it is tried only on texts the first
\* test let through, and every text it matches is made of capitals, commas
\* and blanks
ShortCodeList(chars) == OnlyCapsCommaSpace(chars) /\ \E k \in DOMAIN chars : chars[k] = ","

\* the text test left out: every non-empty text passes
is_valid_option_content_any(node) == get_text(node) # ""

is_valid_option_content(node) ==
    LET node_text == get_text(node)
    IN IF node_text = "" THEN FALSE
       ELSE IF OnlyCapsCommaSpace(ItemTextChars(node_text)) THEN FALSE
       ELSE ~ShortCodeList(ItemTextChars(node_text))

RECURSIVE has_option_child(_)
has_option_child(node) ==
    IF node.name \in {"LI", "L", "ExtraCharSpan", "LBody"} THEN TRUE
    ELSE IF \E c \in DOMAIN node.children : has_option_child(node.children[c]) THEN TRUE
    ELSE IF check_p_extracharspan_extracharspan_pattern(node) THEN TRUE
    ELSE IF check_p_sub_pattern(node) THEN TRUE
    ELSE IF node.name = "TD"
    THEN (IF ~is_valid_option_content(node) THEN FALSE
          ELSE \E p \in DOMAIN find_nodes_by_name_pattern(node, "P") :
                   get_text(find_nodes_by_name_pattern(node, "P")[p]) # "")
    ELSE FALSE

\* "\n".join(p_texts): the cells in use hold at most one P node with text
JoinLines(p_texts) == IF Len(p_texts) = 0 THEN "" ELSE Head(p_texts)

\* the question or item-name text read from P nodes, else the raw cell text;
\* skip is TRUE when every P node is a ParagraphSpan
TextFromParagraphs(cell) ==
    LET p_nodes == find_nodes_by_name_pattern(cell, "P")
        texts == SelectSeq([k \in DOMAIN p_nodes |-> get_text(p_nodes[k])], LAMBDA t : t # "")
    IN IF Len(p_nodes) = 0 THEN [skip |-> FALSE, text |-> get_text(cell)]
       ELSE IF \A k \in DOMAIN p_nodes : p_nodes[k].name = "ParagraphSpan"
       THEN [skip |-> TRUE, text |-> ""]
       ELSE [skip |-> FALSE, text |-> JoinLines(texts)]

OnlyAsterisks(text) == text \in {"*", "**", "***"}

NewItem(group, name, option) ==
    [group |-> group, name |-> name, option |-> option]

\* the 3-cell branch: the items the row adds (none or one)
ThreeCellItems(cells, group, config) ==
    LET question == TextFromParagraphs(cells[2])
    IN IF question.skip THEN <<>>
       ELSE IF question.text = "" \/ OnlyAsterisks(question.text) THEN <<>>
       ELSE IF is_instruction(InstructionView(question.text), config) THEN <<>>
       ELSE IF ~is_valid_option_content(cells[3]) THEN <<>>
       ELSE <<NewItem(group, question.text, cells[3])>>

\* the item name the cell before an option cell gives: [skip, text]
ItemNameFrom(prev_cell) ==
    LET sub_nodes == find_nodes_by_name_pattern(prev_cell, "Sub")
        main_sub_text == IF Len(sub_nodes) = 0 THEN "" ELSE get_text(sub_nodes[1])
        from_sub == IF main_sub_text # "" /\ Head(ItemTextChars(main_sub_text)) # "["
                    THEN main_sub_text ELSE ""
        from_p == TextFromParagraphs(prev_cell)
    IN IF from_sub # "" THEN [skip |-> FALSE, text |-> from_sub]
       ELSE IF from_p.skip THEN from_p
       ELSE IF from_p.text = "" \/ OnlyAsterisks(from_p.text) THEN [skip |-> TRUE, text |-> ""]
       ELSE from_p

\* the general branch: one item for every cell after the first that holds an
\* option child, named by the cell before it
RECURSIVE OptionCellItems(_, _, _, _)
OptionCellItems(cells, i, group, config) ==
    IF i > Len(cells) THEN <<>>
    ELSE (IF has_option_child(cells[i])
          THEN LET item_name == ItemNameFrom(cells[i - 1])
               IN IF item_name.skip THEN <<>>
                  ELSE IF is_instruction(InstructionView(item_name.text), config) THEN <<>>
                  ELSE <<NewItem(group, item_name.text, cells[i])>>
          ELSE <<>>)
         \o OptionCellItems(cells, i + 1, group, config)

\* a single-cell row that sets current_item_group
IsGroupHeader(cells, config) ==
    /\ Len(cells) = 1
    /\ ItemLabelValid(get_text(cells[1]))
    /\ ~is_instruction(InstructionView(get_text(cells[1])), config)

\* the rows of one table: [items, group] after the rows from r on
RECURSIVE ItemsOfRows(_, _, _, _)
ItemsOfRows(rows, r, group, config) ==
    IF r > Len(rows) THEN [items |-> <<>>, group |-> group]
    ELSE LET cells == SelectSeq(rows[r], LAMBDA c : c.name \in {"TH", "TD"})
         IN IF IsGroupHeader(cells, config)
            THEN ItemsOfRows(rows, r + 1, get_text(cells[1]), config)
            ELSE LET here == IF Len(cells) = 3 THEN ThreeCellItems(cells, group, config)
                             ELSE OptionCellItems(cells, 2, group, config)
                     rest == ItemsOfRows(rows, r + 1, group, config)
                 IN [items |-> here \o rest.items, group |-> rest.group]

\* the Table node built from a list of rows
TableNode(rows) ==
    Node("Table", "", [r \in DOMAIN rows |-> Node("TR", "", rows[r])])

\* items_data: the tables in order, metadata tables skipped, current_item_group
\* carried from table to table
RECURSIVE ItemsOfTables(_, _, _, _)
ItemsOfTables(tables, t, group, config) ==
    IF t > Len(tables) THEN <<>>
    ELSE IF is_metadata_table(TableText(TableNode(tables[t])), config)
    THEN ItemsOfTables(tables, t + 1, group, config)
    ELSE LET done == ItemsOfRows(tables[t], 1, group, config)
         IN done.items \o ItemsOfTables(tables, t + 1, done.group, config)

ItemKey(item) == <<item.name, item.group>>

\* unique_items.append(item) without the seen_names test
KeepAlways(unique, item) == Append(unique, item)

\* "if item_key not in seen_names: seen_names.add(item_key); unique_items.append(item)"
KeepIfUnseen(unique, item) ==
    IF ItemKey(item) \in {ItemKey(unique[k]) : k \in DOMAIN unique} THEN unique
    ELSE Append(unique, item)

RECURSIVE DedupItems(_, _)
DedupItems(items_data, unique) ==
    IF Len(items_data) = 0 THEN unique
    ELSE DedupItems(Tail(items_data), KeepIfUnseen(unique, Head(items_data)))

items_data_of(tables, config) == ItemsOfTables(tables, 1, "", config)

extract_items_from_form(tables, config) == DedupItems(items_data_of(tables, config), <<>>)

\* table_nodes = find_nodes_by_name_pattern(form_node, '^Table'), each with
\* tr_nodes = find_nodes_by_name_pattern(table, '^TR'): every Table at any
\* depth, each with every TR at any depth below it
TablesOfForm(form_node) ==
    LET table_nodes == find_nodes_by_name_pattern(form_node, "Table")
    IN [t \in DOMAIN table_nodes |->
          LET tr_nodes == find_nodes_by_name_pattern(table_nodes[t], "TR")
          IN [r \in DOMAIN tr_nodes |-> tr_nodes[r].children]]


\* get_item_group_repeating_flag
get_item_group_repeating_flag(item_group, repeating_groups) ==
    IF item_group = "" \/ item_group = "NaN" THEN "N"
    ELSE IF item_group \in repeating_groups THEN "Y" ELSE "N"

DefaultRepeatMaximum == 50

\* analyze_item_groups_per_form: the Counter of the non-empty groups other than 'NaN'
item_group_counts_of(items) ==
    LET groups == {items[k].group : k \in DOMAIN items} \ {"", "NaN"}
    IN [g \in groups |-> Cardinality({k \in DOMAIN items : items[k].group = g})]

\* counts a group met once as repeating
repeating_groups_any(items) ==
    {g \in DOMAIN item_group_counts_of(items) : item_group_counts_of(items)[g] >= 1}

repeating_groups_of(items) ==
    {g \in DOMAIN item_group_counts_of(items) : item_group_counts_of(items)[g] > 1}

\* get_repeat_maximum
get_repeat_maximum(item_group, item_group_repeating_flag, item_group_counts) ==
    IF item_group_repeating_flag = "Y" /\ item_group \in DOMAIN item_group_counts
    THEN item_group_counts[item_group]
    ELSE DefaultRepeatMaximum

\* "if not items: items.append({...})", then assign_item_order and one row per item
ItemRowsOf(found) ==
    LET items == IF Len(found) = 0 THEN <<NewItem("", "", NoOptionNode)>> ELSE found
        counts == item_group_counts_of(items)
        repeating == repeating_groups_of(items)
    IN [k \in DOMAIN items |->
          LET item_group_value == IF items[k].group = "" THEN "NaN" ELSE items[k].group
              flag == get_item_group_repeating_flag(item_group_value, repeating)
          IN [item_group |-> item_group_value,
              repeating_flag |-> flag,
              repeat_maximum |-> get_repeat_maximum(item_group_value, flag, counts),
              item_order |-> k,
              item_name |-> items[k].name]]

\* ---- inputs ----
\* the rows in use, each a list of cells
ItemRowKinds ==
    { << Leaf("TD", "Vital Signs") >>,
      << Leaf("TD", "NaN") >>,
      << Leaf("TH", "*"), Node("TD", "", <<Leaf("P", "Age")>>), Node("TD", "", <<Leaf("P", "Yes")>>) >>,
      << Leaf("TH", ""), Leaf("TD", "Sex"), Leaf("TD", "C, CO") >>,
      << Leaf("TH", ""), Leaf("TD", "Sex"), Node("TD", "", <<Leaf("LBody", "C, CO")>>) >>,
      << Leaf("TH", "Sex"), Node("TD", "", <<Node("L", "", <<Node("LI", "", <<Leaf("LBody", "Yes")>>)>>)>>) >>,
      << Leaf("TH", "Sex"), Node("TD", "", <<Leaf("LBody", "C, CO")>>) >>,
      << Leaf("TH", "Age"), Node("TD", "", <<Leaf("P", "C, CO")>>) >>,
      << Leaf("TH", "Age"), Node("TD", "", <<Leaf("P", "Yes")>>) >>,
      << Leaf("TH", "Age"), Node("TD", "", <<Node("P", "C, CO", <<Leaf("Sub", "")>>)>>) >>,
      << Leaf("TH", "Please sign"), Node("TD", "", <<Leaf("P", "Yes")>>) >>,
      << Leaf("TD", "Novo Nordisk A/S"), Leaf("TD", "Trial ID:"), Leaf("TD", "Version: 1.0") >> }

\* the ways to cut a list of rows into one or two tables
TablesFrom(rows) ==
    {<<rows>>} \cup {<<SubSeq(rows, 1, k), SubSeq(rows, k + 1, Len(rows))>> : k \in 1..(Len(rows) - 1)}

IInit ==
    /\ HIdle /\ MIdle /\ SIdle /\ FIdle /\ CIdle /\ DIdle /\ EIdle /\ RIdle /\ TIdle /\ GIdle /\ XIdle /\ BIdle
    /\ i_pc = "loaded"
    /\ \E n \in 1..MaxItemRows : \E rows \in [1..n -> ItemRowKinds] : form_tables \in TablesFrom(rows)
    /\ item_config \in {load_config("missing"), load_config("a")}
    /\ unique_items = <<>>
    /\ item_rows = <<>>

\* the body of the per-form loop of process_clinical_forms and of
\* prepare_study_specific_forms_rows
ProcessForm ==
    /\ i_pc = "loaded"
    /\ LET items == extract_items_from_form(form_tables, item_config)
       IN /\ unique_items' = items
          /\ item_rows' = ItemRowsOf(items)
    /\ i_pc' = "done"
    /\ UNCHANGED <<form_tables, item_config>>
    /\ UNCHANGED <<hvars, mvars, svars, fvars, cvars, dvars, evars, rvars, tvars, gvars, xvars, bvars>>

INext == ProcessForm

SpecItems == IInit /\ [][INext]_vars

\* ---- a form whose table holds a second table in the cell of its last row ----
\* the rows of the outer table and of the table nested in it; only the
\* document-information row occurs in both, and it yields no item
OuterRowKinds ==
    { << Leaf("TH", "Age"), Node("TD", "", <<Leaf("P", "Yes")>>) >>,
      << Leaf("TD", "Novo Nordisk A/S"), Leaf("TD", "Trial ID:"), Leaf("TD", "Version: 1.0") >> }

InnerRowKinds ==
    { << Leaf("TH", "Sex"), Node("TD", "", <<Node("L", "", <<Node("LI", "", <<Leaf("LBody", "No")>>)>>)>>) >>,
      << Leaf("TH", "Sponsor"), Node("TD", "", <<Leaf("P", "Yes")>>) >>,
      << Leaf("TD", "Novo Nordisk A/S"), Leaf("TD", "Trial ID:"), Leaf("TD", "Version: 1.0") >> }

\* a rules file whose first metadata keyword is anchored at the start of the text
AnchoredConfig ==
    [metadata_keywords |-> <<"^Sponsor", "Trial ID:", "Version: 1.0">>,
     company_patterns |-> <<>>]

NestedForm(outer_rows, inner_rows) ==
    Node("Sect", "",
         << TableNode(outer_rows \o << << Node("TD", "", <<TableNode(inner_rows)>>) >> >>) >>)

NestedForms(n) ==
    UNION { {NestedForm(outer_rows, inner_rows) :
                outer_rows \in [1..(n - k) -> OuterRowKinds],
                inner_rows \in [1..k -> InnerRowKinds]} : k \in 1..n }

IInitNested ==
    /\ HIdle /\ MIdle /\ SIdle /\ FIdle /\ CIdle /\ DIdle /\ EIdle /\ RIdle /\ TIdle /\ GIdle /\ XIdle /\ BIdle
    /\ i_pc = "loaded"
    /\ \E n \in 1..MaxItemRows : \E form_node \in NestedForms(n) :
          form_tables = TablesOfForm(form_node)
    /\ item_config \in {load_config("missing"), AnchoredConfig}
    /\ unique_items = <<>>
    /\ item_rows = <<>>

SpecNestedTables == IInitNested /\ [][INext]_vars


(***************************************************************************)
(* Claims about the Item Extractor                                         *)
(***************************************************************************)
\* the text of the option cell of an item is made of capitals, commas and blanks only
CapsOnlyOption(item) == OnlyCapsCommaSpace(ItemTextChars(get_text(item.option)))

\* every row of the form, whatever its table
FormRows == UNION {{form_tables[t][r] : r \in DOMAIN form_tables[t]} : t \in DOMAIN form_tables}

\* some node strictly below the cell is a list or span node, or a P with a Sub
\* child, or a P with an ExtraCharSpan in an ExtraCharSpan
RECURSIVE HoldsOptionNode(_)
HoldsOptionNode(node) ==
    \E c \in DOMAIN node.children :
        \/ node.children[c].name \in {"LI", "L", "ExtraCharSpan", "LBody", "Sub"}
        \/ HoldsOptionNode(node.children[c])

MaxEventRows == 2

IsLetter(c) == IsUpperLetter(c) \/ IsLowerLetter(c)

\* the default pattern r'^([VP]\d+)(?:\s([a-zA-Z]+))?$' on a stripped token:
\* the places where group 1 can end
BaseEnds(token) ==
    {n \in 2..Len(token) :
        /\ token[1] \in {"V", "P"}
        /\ \A k \in 2..n : token[k] \in Digits
        /\ \/ n = Len(token)
           \/ /\ n + 2 <= Len(token)
              /\ token[n + 1] = " "
              /\ \A k \in (n + 2)..Len(token) : IsLetter(token[k])}

DefaultKeepSuffixLength == 1

\* returns the base for a suffix of any length
normalize_visit_name_any_suffix(v, config) ==
    LET token == Strip(v)
        special_cases == Get(Get(config, "visit_normalization", <<>>), "special_cases", <<>>)
        ends == BaseEnds(token)
    IN IF ends = {}
       THEN (IF ToUpper(token) \in Range(special_cases) THEN SomeText(ToUpper(token)) ELSE NoneText)
       ELSE LET base == SubSeq(token, 1, CHOOSE n \in ends : TRUE)
            IN IF ToUpper(base) \in Range(special_cases) THEN SomeText(ToUpper(base))
               ELSE SomeText(base)

\* normalize_visit_name with the default pattern and suffix length
normalize_visit_name(v, config) ==
    LET token == Strip(v)
        normalization == Get(config, "visit_normalization", <<>>)
        keep_suffix_length == Get(normalization, "keep_suffix_length", DefaultKeepSuffixLength)
        special_cases == Get(normalization, "special_cases", <<>>)
        ends == BaseEnds(token)
    IN IF ends = {}
       THEN (IF ToUpper(token) \in Range(special_cases) THEN SomeText(ToUpper(token)) ELSE NoneText)
       ELSE LET n == CHOOSE n \in ends : TRUE
                base == SubSeq(token, 1, n)
                suffix == SubSeq(token, n + 2, Len(token))
            IN IF ToUpper(base) \in Range(special_cases) THEN SomeText(ToUpper(base))
               ELSE IF Len(suffix) > 0
               THEN (IF Len(suffix) = keep_suffix_length THEN SomeText(base) ELSE NoneText)
               ELSE SomeText(base)

NoWeek == [none |-> TRUE, value |-> 0]

DigitValue(c) ==
    CASE c = "0" -> 0 [] c = "1" -> 1 [] c = "2" -> 2 [] c = "3" -> 3 [] c = "4" -> 4
      [] c = "5" -> 5 [] c = "6" -> 6 [] c = "7" -> 7 [] c = "8" -> 8 [] c = "9" -> 9

RECURSIVE DecimalValue(_)
DecimalValue(digits) ==
    IF Len(digits) = 0 THEN 0 ELSE 10 * DecimalValue(Front(digits)) + DigitValue(Last(digits))

\* int(''.join(filter(lambda x: x in '-0123456789', txt))), None when int() fails
ParseWeek(txt) ==
    LET kept == SelectSeq(txt, LAMBDA c : c = "-" \/ c \in Digits)
        digits == IF Len(kept) > 0 /\ kept[1] = "-" THEN Tail(kept) ELSE kept
    IN IF Len(digits) = 0 \/ \E k \in DOMAIN digits : digits[k] = "-" THEN NoWeek
       ELSE [none |-> FALSE,
             value |-> IF kept[1] = "-" THEN 0 - DecimalValue(digits) ELSE DecimalValue(digits)]

\* the texts of the P nodes of the cells after the first, row order
RECURSIVE CellTexts(_)
CellTexts(cells) ==
    IF Len(cells) = 0 THEN <<>> ELSE [k \in DOMAIN Head(cells) |-> Strip(Head(cells)[k])] \o CellTexts(Tail(cells))

AnyKeywordIn(keywords, first_text) ==
    \E k \in DOMAIN keywords : Contains(ToLower(Strip(first_text)), keywords[k])

VisitShortNameKeywords(config) ==
    Get(Get(config, "table_detection", <<>>), "visit_short_name_keywords",
        << <<"v", "i", "s", "i", "t", " ", "s", "h", "o", "r", "t", " ", "n", "a", "m", "e">> >>)

StudyWeekKeywords(config) ==
    Get(Get(config, "table_detection", <<>>), "study_week_keywords",
        << <<"s", "t", "u", "d", "y", " ", "w", "e", "e", "k">> >>)

IsVisitRow(row, config) == AnyKeywordIn(VisitShortNameKeywords(config), row.first_text)

IsWeekRow(row, config) ==
    ~IsVisitRow(row, config) /\ AnyKeywordIn(StudyWeekKeywords(config), row.first_text)

\* every row of every table, in order
RECURSIVE AllRows(_)
AllRows(tables) == IF Len(tables) = 0 THEN <<>> ELSE Head(tables) \o AllRows(Tail(tables))

\* the visit tokens met in visit rows, each with its normalization
RECURSIVE NormalizedTokens(_, _)
NormalizedTokens(rows, config) ==
    IF Len(rows) = 0 THEN <<>>
    ELSE (IF IsVisitRow(Head(rows), config)
          THEN LET texts == CellTexts(Head(rows).cells)
               IN [k \in DOMAIN texts |->
                      [token |-> texts[k], norm |-> normalize_visit_name(texts[k], config)]]
          ELSE <<>>)
         \o NormalizedTokens(Tail(rows), config)

\* visit_names: the normalized names that are not None
VisitNames(rows, config) ==
    LET kept == SelectSeq(NormalizedTokens(rows, config), LAMBDA t : ~t.norm.none /\ Len(t.norm.value) > 0)
    IN [k \in DOMAIN kept |-> kept[k].norm.value]

\* study_weeks
RECURSIVE StudyWeeks(_, _)
StudyWeeks(rows, config) ==
    IF Len(rows) = 0 THEN <<>>
    ELSE (IF IsWeekRow(Head(rows), config)
          THEN LET texts == CellTexts(Head(rows).cells)
               IN [k \in DOMAIN texts |-> ParseWeek(texts[k])]
          ELSE <<>>)
         \o StudyWeeks(Tail(rows), config)

\* extract_visits_and_weeks: both lists cut to the shorter length and zipped
extract_visits_and_weeks(tables, config) ==
    LET visit_names == VisitNames(AllRows(tables), config)
        study_weeks == StudyWeeks(AllRows(tables), config)
        min_len == Min(Len(visit_names), Len(study_weeks))
    IN [k \in 1..min_len |-> [visit_name |-> visit_names[k], study_week |-> study_weeks[k]]]

\* keeps every row
keep_all_rows(df) == df

\* drop_duplicates(subset=['Visit Name']).reset_index(drop=True): keep='first'
drop_duplicates(df) ==
    LET marked == [k \in DOMAIN df |->
                      [row |-> df[k],
                       keep |-> \A j \in 1..(k - 1) : df[j].visit_name # df[k].visit_name]]
        kept == SelectSeq(marked, LAMBDA e : e.keep)
    IN [k \in DOMAIN kept |-> kept[k].row]

\* ---- inputs ----
EventRowKinds ==
    { [first_text |-> <<"V", "i", "s", "i", "t", " ", "s", "h", "o", "r", "t", " ", "n", "a", "m", "e">>, cells |-> <<<<<<"V", "1">>>>, <<<<"V", "1", " ", "a">>>>>>],
      [first_text |-> <<"V", "i", "s", "i", "t", " ", "s", "h", "o", "r", "t", " ", "n", "a", "m", "e">>, cells |-> <<<<<<"V", "1">>>>, <<<<"V", "2", " ", "a", "b", "c">>>>, <<<<"V", "2">>>>>>],
      [first_text |-> <<"V", "i", "s", "i", "t", " ", "s", "h", "o", "r", "t", " ", "n", "a", "m", "e">>, cells |-> <<<<<<"R", "A", "N", "D">>>>, <<<<"V", "1", "2", " ", "a">>>>>>],
      [first_text |-> <<"V", "i", "s", "i", "t", " ", "s", "h", "o", "r", "t", " ", "n", "a", "m", "e">>, cells |-> <<<<<<"V", "2">>>>, <<<<"V", "1", "2", " ", "a", "b", "c">>>>, <<<<"V", "1", " ", "b">>>>, <<<<"V", "2", " ", "c">>>>>>],
      [first_text |-> <<"V", "i", "s", "i", "t", " ", "S", "h", "o", "r", "t", " ", "N", "a", "m", "e">>, cells |-> <<<<<<"r", "a", "n", "d">>, <<"V", "2">>>>, <<>>>>],
      [first_text |-> <<"S", "t", "u", "d", "y", " ", "w", "e", "e", "k">>, cells |-> <<<<<<"0">>>>, <<<<"4">>>>>>],
      [first_text |-> <<"S", "t", "u", "d", "y", " ", "w", "e", "e", "k">>, cells |-> <<<<<<"-", "2">>>>, <<<<"W", "e", "e", "k", " ", "4">>>>, <<<<"8">>>>>>],
      [first_text |-> <<"S", "t", "u", "d", "y", " ", "w", "e", "e", "k">>, cells |-> <<<<<<"1", "-", "2">>>>, <<<<>>>>>>],
      [first_text |-> <<"P", "r", "o", "c", "e", "d", "u", "r", "e">>, cells |-> <<<<<<"V", "1">>>>, <<<<"4">>>>>>] }

EventConfigs ==
    { <<>>,
      [visit_normalization |-> [special_cases |-> << <<"R", "A", "N", "D">>, <<"S", "C", "R">> >>]] }

EventTables ==
    UNION {{<<rows>>} \cup {<<SubSeq(rows, 1, k), SubSeq(rows, k + 1, Len(rows))>> : k \in 1..(Len(rows) - 1)} :
              rows \in UNION {[1..n -> EventRowKinds] : n \in 1..MaxEventRows}}

EInit ==
    /\ HIdle /\ MIdle /\ SIdle /\ FIdle /\ CIdle /\ DIdle /\ IIdle /\ RIdle /\ TIdle /\ GIdle /\ XIdle /\ BIdle
    /\ e_pc = "loaded"
    /\ soa_tables \in EventTables
    /\ event_config \in EventConfigs
    /\ normalized = <<>>
    /\ soa_df = <<>>
    /\ visits_df = <<>>

\* generate_visits_with_groups up to the de-duplicated visit table
ExtractVisits ==
    /\ e_pc = "loaded"
    /\ normalized' = NormalizedTokens(AllRows(soa_tables), event_config)
    /\ soa_df' = extract_visits_and_weeks(soa_tables, event_config)
    /\ visits_df' = drop_duplicates(extract_visits_and_weeks(soa_tables, event_config))
    /\ e_pc' = "done"
    /\ UNCHANGED <<soa_tables, event_config>>
    /\ UNCHANGED <<hvars, mvars, svars, fvars, cvars, dvars, ivars, rvars, tvars, gvars, xvars, bvars>>

ENext == ExtractVisits

SpecEvents == EInit /\ [][ENext]_vars

\* the rows of the form that carry the same item group as row k
RowsSharingGroup(k) == {j \in DOMAIN item_rows : item_rows[j].item_group = item_rows[k].item_group}

\* C16: in the rows of a form, an item whose group occurs in exactly one item
\* has repeating flag N and repeat maximum 50, an item whose group occurs in
\* k > 1 items has flag Y and repeat maximum k, and an item with no group (the
\* 'NaN' group value) has flag N and repeat maximum 50.
C16_RepeatingGroupLaw ==
    i_pc = "done" =>
        \A k \in DOMAIN item_rows :
            LET row == item_rows[k]
                count == Cardinality(RowsSharingGroup(k))
            IN IF row.item_group = "NaN" \/ count = 1
               THEN row.repeating_flag = "N" /\ row.repeat_maximum = DefaultRepeatMaximum
               ELSE row.repeating_flag = "Y" /\ row.repeat_maximum = count

\* C16 witness: a form with a group shared by two items, flagged Y with
\* repeat maximum 2
C16_Witness ==
    /\ i_pc = "done"
    /\ \E a, b \in DOMAIN item_rows :
           /\ a # b
           /\ item_rows[a].item_group = item_rows[b].item_group
           /\ item_rows[a].item_group # "NaN"
           /\ item_rows[a].repeating_flag = "Y"
           /\ item_rows[a].repeat_maximum = 2

\* the items discovered in the form's rows, before the uniqueness pass
DiscoveredItems == items_data_of(form_tables, item_config)

\* the position of the first item of a list with the given key
FirstWithKey(items, key) ==
    CHOOSE j \in DOMAIN items :
        /\ ItemKey(items[j]) = key
        /\ \A i \in 1..(j - 1) : ItemKey(items[i]) # key

\* C17: the item list returned by extract_items_from_form holds no two items
\* with the same (Item Name, Item Group) pair, and the item kept for a pair is
\* the first one discovered in row order.
C17_UniqueItemsFirstKept ==
    i_pc = "done" =>
        LET discovered == DiscoveredItems
        IN /\ \A a, b \in DOMAIN unique_items :
                  ItemKey(unique_items[a]) = ItemKey(unique_items[b]) => a = b
           /\ {ItemKey(unique_items[k]) : k \in DOMAIN unique_items}
                  = {ItemKey(discovered[j]) : j \in DOMAIN discovered}
           /\ \A k \in DOMAIN unique_items :
                  unique_items[k] = discovered[FirstWithKey(discovered, ItemKey(unique_items[k]))]

\* C17 witness: two rows gave items with the same name and group but different
\* option cells, and one item was returned for them
C17_Witness ==
    /\ i_pc = "done"
    /\ \E i, j \in DOMAIN DiscoveredItems :
           /\ i < j
           /\ ItemKey(DiscoveredItems[i]) = ItemKey(DiscoveredItems[j])
           /\ DiscoveredItems[i] # DiscoveredItems[j]
    /\ Len(unique_items) < Len(DiscoveredItems)
    /\ Len(unique_items) >= 2

(***************************************************************************)
(* Claims about the triggers and visits of a form                          *)
(***************************************************************************)
\* C14: for every form, Trigger Details is the first trigger sentence in
\* document order among the trigger sentences found for the form, each of at
\* least 4 words, and is at most 300 characters long (so it is the same on
\* every run over the same input).
C14_TriggerDetailsIsFirstSentence ==
    f_pc = "done" =>
        \A k \in DOMAIN extracted_forms :
            LET found == form_trigger_lists[k]
                details == extracted_forms[k].trigger_details
            IN /\ details = IF Len(found) = 0 THEN <<>> ELSE found[1]
               /\ Len(details) <= MaxTriggerLength
               /\ \A t \in DOMAIN found : WordCount(found[t]) >= 4

\* C15: a form whose name contains [ENR] has Dynamic Trigger = No and empty
\* Trigger Details, also with a qualifying trigger sentence under the form
\* node or elsewhere in its section.
C15_EnrFormHasNoTrigger ==
    f_pc = "done" =>
        \A k \in DOMAIN extracted_forms :
            IsEnrForm(extracted_forms[k].name) =>
                /\ extracted_forms[k].dynamic_trigger = "No"
                /\ extracted_forms[k].trigger_details = <<>>

\* C15 witness: an [ENR] form was returned whose own node holds a qualifying
\* trigger sentence, next to a form of the same section that has a trigger
C15_Witness ==
    /\ f_pc = "done"
    /\ \E j \in DOMAIN ecrf_doc :
           /\ IsEnrForm(ecrf_doc[j].text)
           /\ Len(deep_search_triggers(ecrf_doc, j, Get(form_config, "trigger_patterns", <<>>), 7)) > 0
    /\ \E k \in DOMAIN extracted_forms : IsEnrForm(extracted_forms[k].name)
    /\ \E k \in DOMAIN extracted_forms : extracted_forms[k].dynamic_trigger = "Yes"

\* the visit codes of a Visits string, in the order written
VisitCodesOf(visits_str) == SelectSeq(visits_str, LAMBDA tok : tok \notin {",", " "})

\* the code holds a digit
CodeHasNumber(code) == code # "EOT"

NumberlessKey == 9999

\* the codes are all the visit codes found below some node of the document
CodesOfSomeNode(codes) ==
    \/ codes = {}
    \/ \E j \in DOMAIN ecrf_doc :
           codes = deep_search_visits(ecrf_doc, j,
                                      Get(form_config, "visit_patterns", <<DefaultVisitPattern>>))

SoaHeaderRow ==
    LET F == find_all_schedule_tables(tree0_children, row_cells, soa_config)
        all_rows == Flatten([k \in DOMAIN F.tables |-> TableContent(F.tch, row_cells, F.tables[k])])
    IN detect_visit_header_row(all_rows, soa_config)

\* the visit identifiers of the header cells, left to right
HeaderVisitIds ==
    LET ids == [i \in DOMAIN SoaHeaderRow |->
                   extract_complete_visit_identifier(SoaHeaderRow[i], Get(soa_config, "visit_patterns", <<>>))]
    IN SelectSeq(ids, LAMBDA id : id # NoneStr)

\* C18: the visit list follows the header's columns left to right, its names
\* are pairwise distinct, and the n-th repeated occurrence of a name X is
\* named X_n (written <<X, n>>; the first occurrence is <<X, 0>>).
C18_RepeatedVisitsSuffixed ==
    (s_pc = "done" /\ ~soa_result.none) =>
        LET visit_order == soa_result.visit_order
        IN /\ Len(visit_order) = Len(HeaderVisitIds)
           /\ \A k \in DOMAIN visit_order :
                  /\ visit_order[k][1] = HeaderVisitIds[k]
                  /\ visit_order[k][2] =
                         Cardinality({j \in 1..(k - 1) : HeaderVisitIds[j] = HeaderVisitIds[k]})
           /\ \A a, b \in DOMAIN visit_order : visit_order[a] = visit_order[b] => a = b

\* C18 witness: a header in which a visit name occurs three times, with
\* another visit between the occurrences
C18_Witness ==
    /\ s_pc = "done"
    /\ ~soa_result.none
    /\ \E a, b, c \in DOMAIN HeaderVisitIds :
           /\ a + 1 < b /\ b < c
           /\ HeaderVisitIds[a] = HeaderVisitIds[b]
           /\ HeaderVisitIds[b] = HeaderVisitIds[c]
    /\ \E k \in DOMAIN soa_result.visit_order : soa_result.visit_order[k][2] = 2

(***************************************************************************)
(* Claims about event grouping                                             *)
(***************************************************************************)
\* the base code and the letters after it, for a token written as a V or P
\* code, one blank, and letters
SuffixLetters(token) ==
    LET blanks == {k \in DOMAIN token : token[k] = " "}
    IN IF blanks = {} THEN <<>> ELSE SubSeq(token, (CHOOSE k \in blanks : TRUE) + 1, Len(token))

CodeBeforeBlank(token) ==
    LET blanks == {k \in DOMAIN token : token[k] = " "}
    IN IF blanks = {} THEN token ELSE SubSeq(token, 1, (CHOOSE k \in blanks : TRUE) - 1)

IsCodeWithLetters(token) ==
    /\ Cardinality({k \in DOMAIN token : token[k] = " "}) = 1
    /\ Len(CodeBeforeBlank(token)) >= 2
    /\ CodeBeforeBlank(token)[1] \in {"V", "P"}
    /\ \A k \in 2..Len(CodeBeforeBlank(token)) : CodeBeforeBlank(token)[k] \in Digits
    /\ Len(SuffixLetters(token)) >= 1
    /\ \A k \in DOMAIN SuffixLetters(token) : IsLetter(SuffixLetters(token)[k])

ConfiguredSpecialCases ==
    Range(Get(Get(event_config, "visit_normalization", <<>>), "special_cases", <<>>))

\* C13: a visit token made of a V/P code, a blank and one letter normalizes to
\* the code alone; with two or more letters it normalizes to None; a token that
\* is a configured special case is returned unchanged.
C13_VisitNameNormalization ==
    \A k \in DOMAIN normalized :
        LET token == normalized[k].token
            norm == normalized[k].norm
        IN /\ (IsCodeWithLetters(token) /\ Len(SuffixLetters(token)) = 1)
                  => norm = SomeText(CodeBeforeBlank(token))
           /\ (IsCodeWithLetters(token) /\ Len(SuffixLetters(token)) >= 2)
                  => norm = NoneText
           /\ token \in ConfiguredSpecialCases => norm = SomeText(token)

\* C13 witness: one run normalized a one-letter token, a longer-suffix token and
\* a configured special case
C13_Witness ==
    /\ e_pc = "done"
    /\ \E k \in DOMAIN normalized :
           IsCodeWithLetters(normalized[k].token) /\ Len(SuffixLetters(normalized[k].token)) = 1
    /\ \E k \in DOMAIN normalized :
           IsCodeWithLetters(normalized[k].token) /\ Len(SuffixLetters(normalized[k].token)) >= 2
    /\ \E k \in DOMAIN normalized : normalized[k].token \in ConfiguredSpecialCases

\* the position of the first row of the zipped table carrying a visit name
FirstOccurrence(name) ==
    CHOOSE j \in DOMAIN soa_df :
        /\ soa_df[j].visit_name = name
        /\ \A i \in 1..(j - 1) : soa_df[i].visit_name # name

\* C20: the visit table has one row per normalized visit name, in order of
\* first occurrence, and each row carries the study week of that first
\* occurrence.
C20_OneRowPerVisitFirstKept ==
    e_pc = "done" =>
        /\ \A a, b \in DOMAIN visits_df :
               visits_df[a].visit_name = visits_df[b].visit_name => a = b
        /\ {visits_df[k].visit_name : k \in DOMAIN visits_df}
               = {soa_df[j].visit_name : j \in DOMAIN soa_df}
        /\ \A k \in DOMAIN visits_df :
               visits_df[k] = soa_df[FirstOccurrence(visits_df[k].visit_name)]
        /\ \A a, b \in DOMAIN visits_df :
               a < b => FirstOccurrence(visits_df[a].visit_name)
                            < FirstOccurrence(visits_df[b].visit_name)

\* C20 witness: a visit name occurred twice with different study weeks, between
\* them another visit, and the table keeps two rows
C20_Witness ==
    /\ e_pc = "done"
    /\ Len(visits_df) >= 2
    /\ \E i, j \in DOMAIN soa_df :
           /\ i + 1 < j
           /\ soa_df[i].visit_name = soa_df[j].visit_name
           /\ soa_df[i].study_week # soa_df[j].study_week

(***************************************************************************)
(* Data type of an item:                                                   *)
(*   src/Full_pipeline (Copy)/backend/Final_study_specific_form.py         *)
(* The row builders call get_all_lbody_values and then determine_data_type *)
(* on the option cell of every item.                                       *)
(***************************************************************************)
MaxOptionChildren == 2

\* the children an option cell is built from
OptionChildKinds ==
    { Node(name, text, kids) :
          name \in {"P", "LBody"},
          text \in {"Yes", "DOB", "|N3| Years", "Req/Req/Req(1900-2100)"},
          kids \in {<<>>, <<Leaf("ExtraCharSpan", "")>>} }
    \cup { Leaf("ExtraCharSpan", "Yes"), Leaf("Sub", "No"), Leaf("P", ""),
           Leaf("P", "req (1900//2100)") }

OptionCells(n) == {Node("TD", "", kids) : kids \in [1..n -> OptionChildKinds]}

TInit ==
    /\ HIdle /\ MIdle /\ SIdle /\ FIdle /\ CIdle /\ DIdle /\ IIdle /\ EIdle /\ RIdle /\ GIdle /\ XIdle /\ BIdle
    /\ dt_pc = "called"
    /\ \/ dt_option_node = NoOptionNode
       \/ \E n \in 1..MaxOptionChildren : dt_option_node \in OptionCells(n)
    /\ dt_config \in {load_config("missing"), load_config("a")}
    /\ dt_content = <<>>
    /\ dt_result = ""

\* codelist_content = get_all_lbody_values(option_node);
\* data_type = determine_data_type(option_node, codelist_content)
DetermineDataType ==
    /\ dt_pc = "called"
    /\ LET codelist_content == get_all_lbody_values(dt_option_node)
       IN /\ dt_content' = codelist_content
          /\ dt_result' = determine_data_type(dt_option_node, codelist_content, dt_config)
    /\ dt_pc' = "returned"
    /\ UNCHANGED <<dt_option_node, dt_config>>
    /\ UNCHANGED <<hvars, mvars, svars, fvars, cvars, dvars, ivars, evars, rvars, gvars, xvars, bvars>>

TNext == DetermineDataType

SpecDataType == TInit /\ [][TNext]_vars

(***************************************************************************)
(* Configuration loading of a PTD run:                                     *)
(*   src/Full_pipeline (Copy)/backend/generate_ptd.py                      *)
(*   src/Full_pipeline (Copy)/backend/Final_study_specific_form.py         *)
(* run_schedule_grid_pipeline loads the five stage files with the loader   *)
(* of generate_ptd.py; prepare_study_specific_forms_rows then loads the    *)
(* rules file with the loader of Final_study_specific_form.py.             *)
(***************************************************************************)
\* config_files, in the order of the dict
StageConfigKeys ==
    <<"form_extractor", "soa_parser", "common_matrix", "event_grouping", "schedule_layout">>

RulesFile == "study_specific_forms"

ConfigFiles == Range(StageConfigKeys) \cup {RulesFile}

\* what open() and json.load() meet at a path: a JSON object, no file
\* (FileNotFoundError), text that is not JSON (JSONDecodeError), or bytes that
\* are not UTF-8 text (UnicodeDecodeError)
FileStates == {"object", "missing", "not_json", "not_utf8"}

\* the content of a file that holds a JSON object
StoredConfig == [sheet_name |-> "Schedule Grid"]

\* generate_ptd.load_config: [raised, config, warned]
ptd_load_config(file_state) ==
    CASE file_state = "object" -> [raised |-> FALSE, config |-> StoredConfig, warned |-> FALSE]
      [] file_state = "missing" -> [raised |-> FALSE, config |-> <<>>, warned |-> TRUE]
      [] file_state = "not_json" -> [raised |-> FALSE, config |-> <<>>, warned |-> TRUE]
      [] OTHER -> [raised |-> TRUE, config |-> <<>>, warned |-> FALSE]

\* Final_study_specific_form.load_config: "except Exception: return {}"
rules_load_config(file_state) ==
    IF file_state = "object" THEN [raised |-> FALSE, config |-> StoredConfig, warned |-> FALSE]
    ELSE [raised |-> FALSE, config |-> <<>>, warned |-> FALSE]

GInit ==
    /\ HIdle /\ MIdle /\ SIdle /\ FIdle /\ CIdle /\ DIdle /\ IIdle /\ EIdle /\ RIdle /\ TIdle /\ XIdle /\ BIdle
    /\ g_pc = "loading"
    /\ config_on_disk \in [ConfigFiles -> FileStates]
    /\ configs = <<>>
    /\ rules_config = UnsetConfig
    /\ warnings = <<>>

\* one turn of "for key, filename in config_files.items():
\*                 configs[key] = load_config(os.path.join(config_dir, filename))"
LoadStageConfig ==
    /\ g_pc = "loading"
    /\ LET key == StageConfigKeys[Cardinality(DOMAIN configs) + 1]
           got == ptd_load_config(config_on_disk[key])
       IN /\ warnings' = IF got.warned THEN Append(warnings, key) ELSE warnings
          /\ IF got.raised
             THEN g_pc' = "raised" /\ UNCHANGED configs
             ELSE /\ configs' = DictPut(configs, key, got.config)
                  /\ g_pc' = IF Cardinality(DOMAIN configs) + 1 = Len(StageConfigKeys)
                             THEN "rules" ELSE "loading"
    /\ UNCHANGED <<config_on_disk, rules_config>>
    /\ UNCHANGED <<hvars, mvars, svars, fvars, cvars, dvars, ivars, evars, rvars, tvars, xvars, bvars>>

\* prepare_study_specific_forms_rows: CONFIG = load_config(config_path)
LoadRulesConfig ==
    /\ g_pc = "rules"
    /\ LET got == rules_load_config(config_on_disk[RulesFile])
       IN /\ rules_config' = got.config
          /\ warnings' = IF got.warned THEN Append(warnings, RulesFile) ELSE warnings
          /\ g_pc' = IF got.raised THEN "raised" ELSE "done"
    /\ UNCHANGED <<config_on_disk, configs>>
    /\ UNCHANGED <<hvars, mvars, svars, fvars, cvars, dvars, ivars, evars, rvars, tvars, xvars, bvars>>

GNext == LoadStageConfig \/ LoadRulesConfig

SpecLoad == GInit /\ [][GNext]_vars

(***************************************************************************)
(* Claims about configuration loading                                      *)
(***************************************************************************)
\* the files whose load has been attempted
AttemptedFiles ==
    {StageConfigKeys[k] : k \in 1..(IF g_pc = "raised" THEN Cardinality(DOMAIN configs) + 1
                                    ELSE Cardinality(DOMAIN configs))}
    \cup (IF g_pc = "done" THEN {RulesFile} ELSE {})

\* C23: loading a missing or invalid configuration file never aborts a run:
\* load_config returns the empty (built-in defaults) configuration, the stage
\* continues, and a warning is surfaced.
C23_BadConfigFallsBackWithWarning ==
    /\ g_pc # "raised"
    /\ \A file \in AttemptedFiles :
          config_on_disk[file] # "object" =>
              /\ (IF file = RulesFile THEN rules_config ELSE configs[file]) = <<>>
              /\ \E w \in DOMAIN warnings : warnings[w] = file

(***************************************************************************)
(* Claims about the data type of an item                                   *)
(***************************************************************************)
\* some node at or below the given one has the name
RECURSIVE HasNodeNamed(_, _)
HasNodeNamed(node, name) ==
    \/ node.name = name
    \/ \E k \in DOMAIN node.children : HasNodeNamed(node.children[k], name)

\* nested option-list structure: an LBody that contains an ExtraCharSpan, or
\* any ExtraCharSpan
NestedOptionStructure(node) == HasNodeNamed(node, "ExtraCharSpan")

ContentMatchesDateTime ==
    DateTimeSearch(Get(dt_config, "date_time_pattern", DefaultDateTimePattern), dt_content)

PipeWithAtMostOneBullet ==
    (\E k \in DOMAIN dt_content : dt_content[k] = "|")
    /\ Cardinality({k \in DOMAIN dt_content : dt_content[k] = Bullet}) <= 1

\* C22: determine_data_type decides in a fixed order: Date/Time if the codelist
\* text matches the date/time pattern; otherwise Codelist if the option cell
\* contains nested option-list structure; otherwise Label if the text contains
\* a "|" with at most one bullet; otherwise Text. Label is therefore returned
\* only when no nested option-list structure exists.
C22_DataTypeOrder ==
    dt_pc = "returned" =>
        /\ dt_result = (IF ContentMatchesDateTime THEN "Date/Time"
                        ELSE IF NestedOptionStructure(dt_option_node) THEN "Codelist"
                        ELSE IF PipeWithAtMostOneBullet THEN "Label"
                        ELSE "Text")
        /\ dt_result = "Label" => ~NestedOptionStructure(dt_option_node)

\* C22 witness: a cell whose text has a "|" and one bullet was typed Codelist
\* because of an ExtraCharSpan below it.
C22_Witness ==
    /\ dt_pc = "returned"
    /\ PipeWithAtMostOneBullet
    /\ ~ContentMatchesDateTime
    /\ NestedOptionStructure(dt_option_node)
    /\ dt_result = "Codelist"

(***************************************************************************)
(* Claims about the Required flag of a form                                *)
(***************************************************************************)
\* the required-legend nodes and the candidate form nodes of the document
LegendNodes == {i \in DOMAIN ecrf_doc : IsRequiredText(ecrf_doc[i].text)}

CandidateFormNodes ==
    {i \in DOMAIN ecrf_doc : IsCollectedAsForm(ecrf_doc[i].text)} \ LegendNodes

SectionDistance(i, j) == AbsDiff(SectionNumber(ecrf_doc[i]), SectionNumber(ecrf_doc[j]))

\* the legend is assigned to the candidate: no candidate is nearer, none
\* found before it is as near, and the distance is at most 5
LegendAssignedTo(legend, candidate) ==
    /\ \A c \in CandidateFormNodes :
          /\ SectionDistance(legend, candidate) <= SectionDistance(legend, c)
          /\ c < candidate => SectionDistance(legend, candidate) < SectionDistance(legend, c)
    /\ SectionDistance(legend, candidate) <= 5

\* C24: a form is marked Required = Yes if and only if some required-legend
\* node is assigned to it, where each legend is assigned to the candidate form
\* node with the smallest absolute section-index distance (the first found on
\* ties) and only when that distance is at most 5.
C24_RequiredIffLegendAssigned ==
    f_pc = "done" =>
        \A k \in DOMAIN extracted_forms :
            extracted_forms[k].required = "Yes"
            <=> \E legend \in LegendNodes : \E candidate \in CandidateFormNodes :
                    /\ ecrf_doc[candidate].text = extracted_forms[k].name
                    /\ LegendAssignedTo(legend, candidate)

(***************************************************************************)
(* Claims about the heading context of the Hierarchy Builder               *)
(***************************************************************************)
\* the element consumed by a step of the builder and the node made for it
StepElement == elements'[Len(elements')]

StepNode == Len(nodes) + 1

\* plain content: neither a heading, a top-level table, inline content nor a
\* structural descendant, and not the skipped //Document element
IsPlainContent(path) ==
    /\ path # DocumentPath
    /\ get_header_level(path) = NoLevel
    /\ ~is_top_level_table(path)
    /\ ~is_inline_content(path)
    /\ ~is_table_or_complex_structure(path)

HeadingStepAsClaimed(level, parent) ==
    /\ children'[parent] = Append(children[parent], StepNode)
    /\ header_context'[level] = StepNode
    /\ DOMAIN header_context' = {l \in DOMAIN header_context : l < level} \cup {level}
    /\ \A l \in DOMAIN header_context : l < level => header_context'[l] = header_context[l]

\* C27: in parse_hierarchy, after any sequence of elements, a heading of level
\* L is attached as a child of the context node with the greatest level below
\* L (the root if none), becomes the context for level L, and every context
\* entry with level greater than L is removed; a plain-content element is
\* attached under the context node of the greatest level currently present.
C27_HeadingContextStep ==
    [][ LET path == StepElement.path
            level == get_header_level(path)
            below == {l \in DOMAIN header_context : l < level}
        IN /\ level # NoLevel =>
                 HeadingStepAsClaimed(level, IF below = {} THEN RootId
                                             ELSE header_context[SetMax(below)])
           /\ IsPlainContent(path) =>
                 LET parent == header_context[SetMax(DOMAIN header_context)]
                 IN /\ children'[parent] = Append(children[parent], StepNode)
                    /\ header_context' = header_context ]_vars

(***************************************************************************)
(* Repeated calls of parse_hierarchy:                                      *)
(*   src/Full_pipeline/json_struct_protocol.py                             *)
(* root, header_context and path_to_node are locals created by every call; *)
(* the elements are only read (elem.get).                                  *)
(***************************************************************************)
MaxCalls == 2

\* root, header_context and path_to_node_map as lines 52-54 build them
FreshState ==
    HState(<<RootNode>>, << <<>> >>, (0 :> RootId),
           (<<>> :> RootId) @@ (DocumentPath :> RootId))

\* goes on from what the earlier call left
KeptState(previous) == previous

\* lines 52-54: the state a call starts from, whatever an earlier call left
StartState(previous) == FreshState

\* the loop "for elem in elements" from position i on
RECURSIVE ParseFrom(_, _, _)
ParseFrom(S, elems, i) ==
    IF i > Len(elems) THEN S
    ELSE ParseFrom(ParseElement(S, elems[i].path, elems[i].text), elems, i + 1)

\* the nested dict below node n: name, text, path and the children in order
RECURSIVE TreeBelow(_, _)
TreeBelow(S, n) ==
    [name |-> S.nodes[n].name, text |-> S.nodes[n].text, path |-> S.nodes[n].path,
     children |-> [i \in DOMAIN S.children[n] |-> TreeBelow(S, S.children[n][i])]]

\* the value parse_hierarchy returns: the root dict
ReturnedRoot(S) == TreeBelow(S, RootId)

RepeatElementKinds ==
    { [path |-> <<"Document", "H1">>, text |-> "t"],
      [path |-> <<"Document", "H2[2]">>, text |-> "t"],
      [path |-> <<"Document", "P">>, text |-> "t"],
      [path |-> <<"Document", "P">>, text |-> "u"],
      [path |-> <<"Document", "Table", "TR", "TD">>, text |-> "t"],
      [path |-> <<"Document", "P", "Span">>, text |-> "u"] }

RInit ==
    /\ HIdle /\ MIdle /\ SIdle /\ FIdle /\ CIdle /\ DIdle /\ IIdle /\ EIdle /\ TIdle /\ GIdle /\ XIdle /\ BIdle
    /\ \E n \in 0..MaxElems : h_elements \in [1..n -> RepeatElementKinds]
    /\ h_given = h_elements
    /\ h_returned = <<>>

\* one call parse_hierarchy(elements) on the same list object
CallParseHierarchy ==
    /\ Len(h_returned) < MaxCalls
    /\ LET previous == IF h_returned = <<>> THEN FreshState ELSE Last(h_returned)
       IN h_returned' = Append(h_returned, ParseFrom(StartState(previous), h_elements, 1))
    /\ UNCHANGED <<h_elements, h_given>>
    /\ UNCHANGED <<hvars, mvars, svars, fvars, cvars, dvars, ivars, evars, tvars, gvars, xvars, bvars>>

RNext == CallParseHierarchy

SpecRepeat == RInit /\ [][RNext]_vars

MaxVisits == 2

\* float('inf')
Infinity == [finite |-> FALSE, week |-> 0]

WeekNumber(n) == [finite |-> TRUE, week |-> n]

DocNode(text, kids) == [text |-> text, children |-> kids]

\* text_to_find.lower() in text.lower(), for the texts in use
ContainsIgnoringCase(text, text_to_find) ==
    CASE text_to_find = "Study rationale" ->
            text \in {"1 Study rationale", "STUDY RATIONALE: 12 weeks on treatment"}
      [] text_to_find = "Introduction" -> text = "Introduction"
      [] OTHER -> FALSE

NoElement == DocNode("(None)", <<>>)

\* find_element_by_text: the first node in pre-order whose own text holds the words
RECURSIVE find_element_by_text(_, _), FindInChildren(_, _)
find_element_by_text(data, text_to_find) ==
    IF ContainsIgnoringCase(data.text, text_to_find) THEN data
    ELSE FindInChildren(data.children, text_to_find)

FindInChildren(kids, text_to_find) ==
    IF Len(kids) = 0 THEN NoElement
    ELSE LET found == find_element_by_text(Head(kids), text_to_find)
         IN IF found # NoElement THEN found ELSE FindInChildren(Tail(kids), text_to_find)

\* the weeks that r'(\d+)\s*weeks on treatment' matches in one text
WeeksIn(text) ==
    CASE text = "STUDY RATIONALE: 12 weeks on treatment" -> <<12>>
      [] text = "After 52 weeks on treatment" -> <<52>>
      [] OTHER -> <<>>

\* the matches in json.dumps(node): the node's text, then its children in order
RECURSIVE WeeksBelow(_), WeeksInAll(_)
WeeksBelow(node) == WeeksIn(node.text) \o WeeksInAll(node.children)

WeeksInAll(kids) ==
    IF Len(kids) = 0 THEN <<>> ELSE WeeksBelow(Head(kids)) \o WeeksInAll(Tail(kids))

extract_extension_week(doc, config) ==
    LET extension_config == Get(config, "extension_detection", <<>>)
        search_section == Get(extension_config, "search_section", "Study rationale")
        rationale_section == find_element_by_text(doc, search_section)
    IN IF rationale_section # NoElement /\ Len(WeeksBelow(rationale_section)) > 0
       THEN WeekNumber(WeeksBelow(rationale_section)[1])
       ELSE Infinity

\* group_name.title() of the keys in use
Title(group_name) ==
    CASE group_name = "screening" -> "Screening"
      [] group_name = "follow_up" -> "Follow_Up"
      [] OTHER -> group_name

\* the cells of the Study Week column
IntWeek(n) == [kind |-> "int", value |-> n]

NanWeek == [kind |-> "nan", value |-> 0]

NoneWeek == [kind |-> "none", value |-> 0]

\* study_week >= extension_start_week: "TypeError" for None, False for NaN
AtLeast(study_week, start_week) ==
    CASE study_week.kind = "none" -> "TypeError"
      [] study_week.kind = "nan" -> "False"
      [] OTHER -> IF start_week.finite /\ study_week.value >= start_week.week
                  THEN "True" ELSE "False"

\* study_week > extension_start_week
MoreThan(study_week, start_week) ==
    CASE study_week.kind = "none" -> "TypeError"
      [] study_week.kind = "nan" -> "False"
      [] OTHER -> IF start_week.finite /\ study_week.value > start_week.week
                  THEN "True" ELSE "False"

\* the configured groups in dict order, each [key, group_config]
RECURSIVE ExplicitGroup(_, _)
ExplicitGroup(event_groups, visit_name) ==
    IF Len(event_groups) = 0 THEN "(no rule)"
    ELSE LET group_name == Head(event_groups).key
             one_config == Head(event_groups).group_config
         IN IF visit_name \in Range(Get(one_config, "visit_names", <<>>))
            THEN Get(one_config, "group_name", Title(group_name))
            ELSE ExplicitGroup(Tail(event_groups), visit_name)

\* compares with > in place of >=
get_event_group_strict(row, start_week, config) ==
    LET explicit == ExplicitGroup(Get(config, "event_groups", <<>>), row.visit_name)
        later == MoreThan(row.study_week, start_week)
    IN IF explicit # "(no rule)" THEN explicit
       ELSE IF later = "TypeError" THEN "TypeError"
       ELSE IF later = "True" THEN "Extension" ELSE "Main Study"

\* get_event_group: the group, or "TypeError" when the comparison raises
get_event_group(row, start_week, config) ==
    LET explicit == ExplicitGroup(Get(config, "event_groups", <<>>), row.visit_name)
        later == AtLeast(row.study_week, start_week)
    IN IF explicit # "(no rule)" THEN explicit
       ELSE IF later = "TypeError" THEN "TypeError"
       ELSE IF later = "True" THEN "Extension" ELSE "Main Study"

\* pd.DataFrame({... 'Study Week': study_weeks}): a list of None only stays
\* None (object column); None next to an int becomes NaN (float column)
StudyWeekColumn(rows) ==
    LET all_none == \A k \in DOMAIN rows : rows[k].study_week.none
    IN [k \in DOMAIN rows |->
          [visit_name |-> rows[k].visit_name,
           study_week |-> IF ~rows[k].study_week.none THEN IntWeek(rows[k].study_week.value)
                          ELSE IF all_none THEN NoneWeek ELSE NanWeek]]

\* ---- inputs ----
GroupVisitNames == {"V1", "V2", "V3"}

GroupWeeks == {NoWeek, [none |-> FALSE, value |-> 0], [none |-> FALSE, value |-> 12],
               [none |-> FALSE, value |-> 52]}

ExtractedTables(n) == [1..n -> [visit_name : GroupVisitNames, study_week : GroupWeeks]]

ProtocolDocs ==
    { DocNode("", <<DocNode("Introduction", <<>>)>>),
      DocNode("", <<DocNode("Introduction", <<>>), DocNode("After 52 weeks on treatment", <<>>)>>),
      DocNode("", <<DocNode("1 Study rationale", <<>>), DocNode("After 52 weeks on treatment", <<>>)>>),
      DocNode("", <<DocNode("1 Study rationale", <<DocNode("After 52 weeks on treatment", <<>>)>>)>>),
      DocNode("", <<DocNode("Introduction", <<>>),
                    DocNode("STUDY RATIONALE: 12 weeks on treatment", <<>>),
                    DocNode("After 52 weeks on treatment", <<>>)>>) }

GroupConfigs ==
    { <<>>,
      [event_groups |-> << [key |-> "screening",
                            group_config |-> [visit_names |-> <<"V1">>, group_name |-> "Screening"]] >>],
      [event_groups |-> << [key |-> "follow_up", group_config |-> [visit_names |-> <<"V2", "V3">>]],
                           [key |-> "screening", group_config |-> <<>>] >>],
      [extension_detection |-> [search_section |-> "Introduction"]] }

XInit ==
    /\ HIdle /\ MIdle /\ SIdle /\ FIdle /\ CIdle /\ DIdle /\ IIdle /\ EIdle /\ RIdle /\ TIdle /\ GIdle /\ BIdle
    /\ x_pc = "loaded"
    /\ protocol_doc \in ProtocolDocs
    /\ group_config \in GroupConfigs
    /\ \E n \in 1..MaxVisits : extracted_df \in ExtractedTables(n)
    /\ extension_start_week = Infinity
    /\ grouped_df = <<>>

\* generate_visits_with_groups from the extracted table to the Event Group
\* column: drop_duplicates, extract_extension_week, then apply(get_event_group)
GroupVisits ==
    /\ x_pc = "loaded"
    /\ LET unique_df == drop_duplicates(StudyWeekColumn(extracted_df))
           start_week == extract_extension_week(protocol_doc, group_config)
           groups == [k \in DOMAIN unique_df |-> get_event_group(unique_df[k], start_week, group_config)]
       IN /\ extension_start_week' = start_week
          /\ IF \E k \in DOMAIN groups : groups[k] = "TypeError"
             THEN /\ x_pc' = "raised"
                  /\ grouped_df' = grouped_df
             ELSE /\ x_pc' = "done"
                  /\ grouped_df' = [k \in DOMAIN unique_df |->
                                       [visit_name |-> unique_df[k].visit_name,
                                        study_week |-> unique_df[k].study_week,
                                        event_group |-> groups[k]]]
    /\ UNCHANGED <<protocol_doc, group_config, extracted_df>>
    /\ UNCHANGED <<hvars, mvars, svars, fvars, cvars, dvars, ivars, evars, rvars, tvars, gvars, bvars>>

XNext == GroupVisits

SpecGroups == XInit /\ [][XNext]_vars

(***************************************************************************)
(* Claims about the event group of a visit                                 *)
(***************************************************************************)
\* the groups whose configured visit_names hold the visit
GroupsNaming(visit_name) ==
    LET event_groups == Get(group_config, "event_groups", <<>>)
    IN {Get(event_groups[g].group_config, "group_name", Title(event_groups[g].key)) :
           g \in {h \in DOMAIN event_groups :
                     visit_name \in Range(Get(event_groups[h].group_config, "visit_names", <<>>))}}

RECURSIVE PatternInDocument(_)
PatternInDocument(node) ==
    \/ Len(WeeksIn(node.text)) > 0
    \/ \E k \in DOMAIN node.children : PatternInDocument(node.children[k])

ReachesExtension(row) ==
    /\ row.study_week.kind = "int"
    /\ extension_start_week.finite
    /\ row.study_week.value >= extension_start_week.week

MaxJobs == 2

JobIds == 1..MaxJobs

NoError == "(none)"

NoOutput == "(none)"

\* the steps of run_pipeline that can raise
PipelineSteps ==
    {"_save_uploaded", "run_schedule_grid_pipeline", "generate_study_specific_forms_xlsx",
     "prepare_study_specific_forms_rows", "surgery_replace_sheets_inplace", "rename",
     "replace_sheets_in_template", "finalize_formatting"}

Requests ==
    [protocol_json : BOOLEAN, ecrf_json : BOOLEAN, template_xlsx : BOOLEAN,
     mode : {"default", "stream", "surgery"}, fast : BOOLEAN,
     raises : PipelineSteps \cup {"(nothing)"}]

\* JOBS[job_id] = {"id": job_id, "state": "running", "created_at": ...}
NewJob == [state |-> "running", error |-> NoError, output |-> NoOutput]

\* a return before the state is written
ReturnAsIs(job, code, message) ==
    [job |-> job, code |-> code, error |-> message, saved |-> FALSE]

\* the except branch: state failed, error str(exc), 500; saved tells whether
\* out_path was written before the exception
Raised(job, saved) ==
    [job |-> [job EXCEPT !.state = "failed", !.error = "(exception)"],
     code |-> 500, error |-> "(exception)", saved |-> saved]

Completed(job) ==
    [job |-> [job EXCEPT !.state = "completed", !.output = "out_path"],
     code |-> 200, error |-> NoError, saved |-> TRUE]

\* the surgery branch
SurgeryPath(job, req) ==
    IF ~req.template_xlsx
    THEN ReturnAsIs(job, 400, "template_xlsx is required for surgery mode")
    ELSE IF req.raises \in {"prepare_study_specific_forms_rows",
                            "surgery_replace_sheets_inplace", "rename"}
    THEN Raised(job, FALSE)
    ELSE Completed(job)

\* the default branch
DefaultPath(job, req) ==
    IF ~req.template_xlsx
    THEN ReturnAsIs(job, 400, "template_xlsx is required when not using stream mode")
    ELSE IF req.raises = "replace_sheets_in_template" THEN Raised(job, FALSE)
    ELSE IF ~req.fast /\ req.raises = "finalize_formatting" THEN Raised(job, TRUE)
    ELSE Completed(job)

\* run_pipeline after the job is registered: [job, code, error, saved]
run_pipeline(job, req) ==
    IF ~req.protocol_json \/ ~req.ecrf_json
    THEN ReturnAsIs(job, 400, "protocol_json and ecrf_json files are required")
    ELSE IF req.raises = "_save_uploaded" THEN Raised(job, FALSE)
    ELSE IF req.raises = "run_schedule_grid_pipeline" THEN Raised(job, FALSE)
    ELSE IF req.mode # "stream" /\ req.raises = "generate_study_specific_forms_xlsx"
    THEN Raised(job, FALSE)
    ELSE IF req.mode = "stream" /\ ~req.template_xlsx
    THEN [job |-> [job EXCEPT !.state = "failed",
                              !.error = "stream mode requires template_xlsx to build final workbook"],
          code |-> 400, error |-> "stream mode requires template_xlsx to build final workbook",
          saved |-> FALSE]
    ELSE IF req.mode \in {"stream", "surgery"} THEN SurgeryPath(job, req)
    ELSE DefaultPath(job, req)

BInit ==
    /\ HIdle /\ MIdle /\ SIdle /\ FIdle /\ CIdle /\ DIdle /\ IIdle /\ EIdle /\ RIdle /\ TIdle /\ GIdle /\ XIdle
    /\ JOBS = <<>>
    /\ responses = <<>>
    /\ workbooks = {}
    /\ download_response = [job_id |-> 0, code |-> 0]

\* POST /run_pipeline, from the new job id to the response
RunPipeline(job_id, req) ==
    /\ job_id \notin DOMAIN JOBS
    /\ LET R == run_pipeline(NewJob, req)
       IN /\ JOBS' = DictPut(JOBS, job_id, R.job)
          /\ responses' = DictPut(responses, job_id, [code |-> R.code, error |-> R.error])
          /\ workbooks' = IF R.saved THEN workbooks \cup {job_id} ELSE workbooks
    /\ UNCHANGED download_response
    /\ UNCHANGED <<hvars, mvars, svars, fvars, cvars, dvars, ivars, evars, rvars, tvars, gvars, xvars>>

\* GET /download?job_id=...
Download(job_id) ==
    /\ download_response' =
          [job_id |-> job_id,
           code |-> IF job_id \notin DOMAIN JOBS THEN 404
                    ELSE IF JOBS[job_id].state # "completed" THEN 400
                    ELSE IF JOBS[job_id].output = NoOutput THEN 404
                    ELSE IF job_id \notin workbooks THEN 404
                    ELSE 200]
    /\ UNCHANGED <<JOBS, responses, workbooks>>
    /\ UNCHANGED <<hvars, mvars, svars, fvars, cvars, dvars, ivars, evars, rvars, tvars, gvars, xvars>>

BNext ==
    \/ \E job_id \in JobIds : \E req \in Requests : RunPipeline(job_id, req)
    \/ \E job_id \in JobIds : Download(job_id)

SpecBackend == BInit /\ [][BNext]_vars

(***************************************************************************)
(* Claims about the jobs of the backend                                    *)
(***************************************************************************)
\* C30: every job whose /run_pipeline request has returned a response is in
\* state completed or failed, the 400 returns included, and a completed job
\* has its output workbook saved.
C30_ReturnedJobsSettled ==
    \A job_id \in DOMAIN responses :
        /\ JOBS[job_id].state \in {"completed", "failed"}
        /\ JOBS[job_id].state = "completed" => job_id \in workbooks

(***************************************************************************)
(* Claims about the Matrix Reconciler                                      *)
(***************************************************************************)
MatrixRows == DOMAIN matrix_df

\* best similarity of a label against the schedule's procedures reaches the threshold
HasProcedureAtOrAbove(l) ==
    \E i \in DOMAIN proc_order : ScoreReaches(fuzzy_match(proc_order[i], l, TRUE), threshold)

HasProcedureExactlyAt(l) ==
    \E i \in DOMAIN proc_order :
        LET sc == fuzzy_match(proc_order[i], l, TRUE) IN sc[1] * 10 = threshold * sc[2]

\* C2: when include_unmapped is false a form whose label has no procedure with
\* similarity >= threshold is dropped from the output matrix entirely; when
\* include_unmapped is true it appears after every mapped form.
C2_UnmappedDroppedOrLast ==
    m_pc = "done" =>
        /\ ~include_unmapped =>
              \A r \in MatrixRows : HasProcedureAtOrAbove(matrix_df[r].label)
        /\ include_unmapped =>
              \A r, q \in MatrixRows :
                  (~HasProcedureAtOrAbove(matrix_df[r].label)
                     /\ HasProcedureAtOrAbove(matrix_df[q].label)) => q < r

C4_ThresholdInclusive ==
    m_pc = "done" =>
        \A l \in UniqueLabels(extracted) :
            /\ HasProcedureExactlyAt(l) => l \notin unmapped_forms
            /\ ~HasProcedureAtOrAbove(l) => l \in unmapped_forms

\* C5: rows are ordered by the position index of the matched procedure, and rows
\* with equal position index keep their original extraction order.
C5_StableProcedureOrder ==
    m_pc = "done" =>
        \A r, q \in MatrixRows :
            r < q =>
               LET ir == SortIndex(form_order_map, matrix_df[r].label)
                   iq == SortIndex(form_order_map, matrix_df[q].label)
               IN /\ ir <= iq
                  /\ ir = iq => matrix_df[r].orig < matrix_df[q].orig

(***************************************************************************)
(* Claims about the Schedule Parser                                        *)
(***************************************************************************)
VisitCellCount(row) == VisitIdCount(row, Get(soa_config, "visit_patterns", <<>>))

\* no Table of the protocol tree has a row with min_visit_count visit identifiers
NoScheduleTableInTree ==
    \A r \in DOMAIN row_cells :
        VisitCellCount(row_cells[r]) < Get(soa_config, "min_visit_count", 3)

\* no row of the protocol tree qualifies as the visit header row
NoHeaderRowInTree ==
    \A r \in DOMAIN row_cells :
        LET score == HeaderScore(row_cells[r], soa_config)
        IN ~(score > 0 /\ score >= Get(soa_config, "min_visit_count", 3))

\* C7: whenever the protocol tree contains no schedule table, or no row
\* qualifies as the visit header row, parse_soa raises and writes no schedule
\* CSV; it never returns an output path for an empty schedule.
C7_MissingScheduleRaises ==
    s_pc = "done" =>
        /\ soa_outcome \in {"returned", "raised"}
        /\ (NoScheduleTableInTree \/ NoHeaderRowInTree) =>
              (soa_outcome = "raised" /\ schedule_csv = NoFile)
        /\ soa_outcome = "returned" =>
              /\ schedule_csv # NoFile
              /\ schedule_csv.marks # {}
              /\ Len(schedule_csv.procedures) > 0
              /\ Len(schedule_csv.visits) > 0

\* C7 witness: a schedule table is found but none of its rows qualifies as the
\* header row, and parse_soa has raised.
C7_Witness ==
    /\ s_pc = "done"
    /\ ~NoScheduleTableInTree
    /\ NoHeaderRowInTree
    /\ soa_outcome = "raised"

\* C10: the document tree is read-only after it is built: running the schedule
\* parser leaves every node's children list unchanged.
C10_TreeReadOnly ==
    s_pc = "done" => table_children = tree0_children

(***************************************************************************)
(* Claims about the scan below the visit header row                        *)
(***************************************************************************)
\* the inputs of the scan, recomputed from the tree as it was loaded:
\* [rows, cols, start, end], rows indexed from 0 as in the code
ScanOf(tch, cells, cfg) ==
    LET F == find_all_schedule_tables(tch, cells, cfg)
        all_rows == Flatten([k \in DOMAIN F.tables |-> TableContent(F.tch, cells, F.tables[k])])
        visit_row == detect_visit_header_row(all_rows, cfg)
        V == VisitColumnsFrom(visit_row, Get(cfg, "visit_patterns", <<>>), 0,
                              [column_to_visit |-> <<>>, visit_order |-> <<>>])
        start_from == FirstIndexOf(all_rows, visit_row) + 1
    IN [rows |-> all_rows, cols |-> DOMAIN V.column_to_visit, start |-> start_from,
        end |-> find_schedule_end(all_rows, DOMAIN V.column_to_visit, start_from, cfg)]

ScanRow(S, i) == S.rows[i + 1]

NonEmptyRow(S, i) == Len(ScanRow(S, i)) > 0

\* the non-empty rows between the header row and the schedule end
RowsScanned(S) == {i \in S.start..(S.end - 1) : i < Len(S.rows) /\ NonEmptyRow(S, i)}

MatchesFilterTerm(text) ==
    LET filters == Get(soa_config, "procedure_filters", <<>>)
    IN \E f \in DOMAIN filters : CellLower(text) = CellLower(filters[f])

LooksLikeVisit(text) ==
    extract_complete_visit_identifier(text, Get(soa_config, "visit_patterns", <<>>)) # NoneStr

ScanRowMarked(S, i) == RowHasMarkers(ScanRow(S, i), S.cols, Get(soa_config, "cell_markers", <<>>))

\* the first scanned row with a marker whose first cell is this procedure
FirstSeen(S, procedure) ==
    SetMin({i \in RowsScanned(S) : ScanRow(S, i)[1] = procedure /\ ScanRowMarked(S, i)})

FilteredRowsNotRecorded(S) ==
    \A i \in RowsScanned(S) :
        (MatchesFilterTerm(ScanRow(S, i)[1]) \/ LooksLikeVisit(ScanRow(S, i)[1]))
            => ScanRow(S, i)[1] \notin Range(soa_result.procedure_order)

RecordedOnceInFirstSeenOrder(S) ==
    LET order == soa_result.procedure_order
    IN /\ \A a \in DOMAIN order :
             \E i \in RowsScanned(S) : ScanRow(S, i)[1] = order[a] /\ ScanRowMarked(S, i)
       /\ \A a, b \in DOMAIN order : a < b =>
             /\ order[a] # order[b]
             /\ FirstSeen(S, order[a]) < FirstSeen(S, order[b])

\* C25: in the scan below the header row, a row whose first cell matches a
\* filter term or looks like a visit identifier is never recorded as a
\* procedure, whatever the filter list (the empty list included); the recorded
\* procedures appear once each, in first-seen order, and each comes from a row
\* with a marker in a visit column.
C25_ScanSkipsAndRecords ==
    (s_pc = "done" /\ ~soa_result.none) =>
        LET S == ScanOf(tree0_children, row_cells, soa_config)
        IN /\ FilteredRowsNotRecorded(S)
           /\ RecordedOnceInFirstSeenOrder(S)

\* find_schedule_end reads its own default for the markers
EndRowMarked(S, i) ==
    RowHasMarkers(ScanRow(S, i), S.cols, Get(soa_config, "cell_markers", <<MarkerPattern>>))

\* marker-bearing rows from start_from up to, not including, row i
MarkerRowsBefore(S, i) ==
    Cardinality({j \in S.start..(i - 1) : NonEmptyRow(S, j) /\ EndRowMarked(S, j)})

\* the non-empty rows after the last marker-bearing row, up to and including row i
NonMarkerRunAt(S, i) ==
    LET last == SetMax({j \in S.start..i : NonEmptyRow(S, j) /\ EndRowMarked(S, j)}
                       \cup {S.start - 1})
    IN Cardinality({j \in (last + 1)..i : NonEmptyRow(S, j)})

EarlyEndAt(S, i) ==
    /\ NonEmptyRow(S, i)
    /\ ~EndRowMarked(S, i)
    /\ MarkerRowsBefore(S, i) >= Get(soa_config, "min_procedures", 25)
    /\ \/ NonMarkerRunAt(S, i) > Get(soa_config, "consecutive_non_procedures_threshold", 25)
       \/ LET breaks == Get(soa_config, "section_breaks", <<>>)
          IN \E b \in DOMAIN breaks : SectionBreakHit(breaks[b], ScanRow(S, i)[1])

\* C26: find_schedule_end returns an index before the end of the rows only at
\* a row where the marker-bearing rows so far have reached min_procedures and
\* either the run of non-marker rows exceeds the threshold or the first cell
\* matches a section break; without such a row it returns the number of rows;
\* the result lies between start_from and the number of rows.
C26_ScheduleEnd ==
    (s_pc = "done" /\ ~soa_result.none) =>
        LET S == ScanOf(tree0_children, row_cells, soa_config)
        IN /\ S.end < Len(S.rows) => EarlyEndAt(S, S.end)
           /\ (~\E i \in S.start..(Len(S.rows) - 1) : EarlyEndAt(S, i)) => S.end = Len(S.rows)
           /\ S.start <= S.end
           /\ S.end <= Len(S.rows)

\* C26 witness: the scan has run and ended before the last row, after at
\* least one row below the header row.
C26_Witness ==
    /\ s_pc = "done"
    /\ ~soa_result.none
    /\ LET S == ScanOf(tree0_children, row_cells, soa_config)
       IN S.start < S.end /\ S.end < Len(S.rows)

(***************************************************************************)
(* Claims about metadata tables of a form                                  *)
(***************************************************************************)
\* the tables of the form that is_metadata_table classifies as metadata
MetadataTablesOfForm ==
    {t \in DOMAIN form_tables :
        is_metadata_table(TableText(TableNode(form_tables[t])), item_config)}

\* the rows that lie inside a metadata table, at any depth
RowsInMetadataTables ==
    UNION {Range(form_tables[t]) : t \in MetadataTablesOfForm}

\* the item's option cell is a cell of this row
ItemComesFrom(item, row) == \E c \in DOMAIN row : row[c] = item.option /\ c > 1

\* C28: no item returned by extract_items_from_form comes from a row that
\* lies inside a table classified as metadata, a metadata table nested in a
\* table that is not metadata included.
C28_NoItemFromMetadataTable ==
    i_pc = "done" =>
        \A k \in DOMAIN unique_items : \A row \in RowsInMetadataTables :
            ~ItemComesFrom(unique_items[k], row)

====
